---- MODULE Spec2Model ----
(***************************************************************************)
(* A model of the httpbin-hono request handlers.  A JavaScript string is   *)
(* a sequence of one-character strings; a handler is one action that       *)
(* reads the request and writes the whole response.                        *)
(***************************************************************************)
EXTENDS Integers, Sequences, FiniteSets, TLC

VARIABLES
    pc,        \* where the client is: "idle", "sent", "received", "done"
    request,   \* the request being handled
    response,  \* the response the handler returned
    history    \* the responses the client received while following a chain

vars == <<pc, request, response, history>>

(***************************************************************************)
(* Bounds of the model.                                                    *)
(***************************************************************************)
MaxN == 4          \* largest redirect count a client starts with
MaxUserLen == 1    \* longest :user path parameter
MaxPasswdLen == 2  \* longest :passwd path parameter
MaxCredLen == 4    \* longest decoded credential string
MaxTokenLen == 2   \* longest bearer token
MaxQueryLen == 2   \* most key=value pairs in a query string
MaxInFlight == 2      \* requests handled concurrently
MaxBytes == 4      \* most bytes of a body or an uploaded file
chunkSize == 2     \* bytes per chunk of jsonSafe (8192 in the source), scaled to MaxBytes
RandomGrid == 6    \* Math.random() is one of 0, 1/RandomGrid, ..., below 1; fine enough for
                   \* every positive weight of the model to hold a draw

(***************************************************************************)
(* JavaScript primitives.                                                  *)
(***************************************************************************)
Digits == <<"0", "1", "2", "3", "4", "5", "6", "7", "8", "9">>

IsDigit(ch) == \E i \in 1..10 : Digits[i] = ch

DigitVal(ch) == (CHOOSE i \in 1..10 : Digits[i] = ch) - 1

\* StrWhiteSpaceChar, as far as the inputs of the model go
IsSpace(ch) == ch \in {" ", "\t", "\n"}

\* a Number: NaN, or an integer value
NaN == [nan |-> TRUE, v |-> 0]

Num(n) == [nan |-> FALSE, v |-> n]

RECURSIVE TrimStart(_)
TrimStart(s) ==
    IF s # <<>> /\ IsSpace(Head(s)) THEN TrimStart(Tail(s)) ELSE s

RECURSIVE TrimEnd(_)
TrimEnd(s) ==
    IF s # <<>> /\ IsSpace(s[Len(s)])
    THEN TrimEnd(SubSeq(s, 1, Len(s) - 1))
    ELSE s

\* String.prototype.trim
Trim(s) == TrimEnd(TrimStart(s))

\* the longest prefix of s made of digits
RECURSIVE DigitPrefix(_)
DigitPrefix(s) ==
    IF s # <<>> /\ IsDigit(Head(s))
    THEN <<Head(s)>> \o DigitPrefix(Tail(s))
    ELSE <<>>

RECURSIVE DigitsValue(_, _)
DigitsValue(s, acc) ==
    IF s = <<>> THEN acc ELSE DigitsValue(Tail(s), 10 * acc + DigitVal(Head(s)))

\* parseInt(s, 10): leading white space, an optional sign, then the longest
\* run of digits; whatever follows is ignored; NaN when there is no digit
parseInt(s) ==
    LET t    == TrimStart(s)
        neg  == t # <<>> /\ Head(t) = "-"
        sign == t # <<>> /\ Head(t) \in {"-", "+"}
        u    == IF sign THEN Tail(t) ELSE t
        d    == DigitPrefix(u)
    IN  IF d = <<>> THEN NaN
        ELSE Num(IF neg THEN -DigitsValue(d, 0) ELSE DigitsValue(d, 0))

RECURSIVE NatToString(_)
NatToString(n) ==
    IF n < 10 THEN <<Digits[n + 1]>>
    ELSE NatToString(n \div 10) \o <<Digits[(n % 10) + 1]>>

\* Number.prototype.toString of an integer (parseInt("-0") is -0, printed "0")
toString(n) == IF n < 0 THEN <<"-">> \o NatToString(-n) ELSE NatToString(n)

\* String.prototype.toLowerCase, on ASCII
UpperLetters ==
    <<"A", "B", "C", "D", "E", "F", "G", "H", "I", "J", "K", "L", "M",
      "N", "O", "P", "Q", "R", "S", "T", "U", "V", "W", "X", "Y", "Z">>

LowerLetters ==
    <<"a", "b", "c", "d", "e", "f", "g", "h", "i", "j", "k", "l", "m",
      "n", "o", "p", "q", "r", "s", "t", "u", "v", "w", "x", "y", "z">>

LowerOf(ch) ==
    IF \E i \in 1..Len(UpperLetters) : UpperLetters[i] = ch
    THEN LowerLetters[CHOOSE i \in 1..Len(UpperLetters) : UpperLetters[i] = ch]
    ELSE ch

toLowerCase(s) == [i \in 1..Len(s) |-> LowerOf(s[i])]

(***************************************************************************)
(* Characters, bytes and base64 (btoa, atob).                              *)
(***************************************************************************)
\* the printable ASCII characters, code 32 (space) to code 126 (~); the grave
\* accent, code 96, is written "#96"
Ascii ==
    <<" ", "!", "\"", "#", "$", "%", "&", "'", "(", ")", "*", "+",
      ",", "-", ".", "/", "0", "1", "2", "3", "4", "5", "6", "7",
      "8", "9", ":", ";", "<", "=", ">", "?", "@", "A", "B", "C",
      "D", "E", "F", "G", "H", "I", "J", "K", "L", "M", "N", "O",
      "P", "Q", "R", "S", "T", "U", "V", "W", "X", "Y", "Z", "[",
      "\\", "]", "^", "_", "#96", "a", "b", "c", "d", "e", "f", "g",
      "h", "i", "j", "k", "l", "m", "n", "o", "p", "q", "r", "s",
      "t", "u", "v", "w", "x", "y", "z", "{", "|", "}", "~">>

\* String.fromCharCode(n) for a byte n; a byte outside printable ASCII is
\* written "#n" and stands for the one character of that code
fromCharCode(n) == IF n \in 32..126 THEN Ascii[n - 31] ELSE "#" \o ToString(n)

\* String.prototype.charCodeAt of a one-character string of code 0..255
charCode(ch) == CHOOSE n \in 0..255 : fromCharCode(n) = ch

Base64Alphabet ==
    <<"A", "B", "C", "D", "E", "F", "G", "H", "I", "J", "K", "L", "M",
      "N", "O", "P", "Q", "R", "S", "T", "U", "V", "W", "X", "Y", "Z",
      "a", "b", "c", "d", "e", "f", "g", "h", "i", "j", "k", "l", "m",
      "n", "o", "p", "q", "r", "s", "t", "u", "v", "w", "x", "y", "z",
      "0", "1", "2", "3", "4", "5", "6", "7", "8", "9", "+", "/">>

IsBase64Char(ch) == \E i \in 1..64 : Base64Alphabet[i] = ch

Base64Value(ch) == (CHOOSE i \in 1..64 : Base64Alphabet[i] = ch) - 1

Base64Char(v) == Base64Alphabet[v + 1]

\* base64 of a sequence of bytes, three bytes to four characters, padded with =
RECURSIVE Base64Encode(_)
Base64Encode(bytes) ==
    IF bytes = <<>> THEN <<>>
    ELSE LET n  == Len(bytes)
             b1 == bytes[1]
             b2 == IF n >= 2 THEN bytes[2] ELSE 0
             b3 == IF n >= 3 THEN bytes[3] ELSE 0
             c1 == Base64Char(b1 \div 4)
             c2 == Base64Char((b1 % 4) * 16 + (b2 \div 16))
             c3 == Base64Char((b2 % 16) * 4 + (b3 \div 64))
             c4 == Base64Char(b3 % 64)
         IN  IF n = 1 THEN <<c1, c2, "=", "=">>
             ELSE IF n = 2 THEN <<c1, c2, c3, "=">>
             ELSE <<c1, c2, c3, c4>> \o Base64Encode(SubSeq(bytes, 4, n))

\* btoa(s) of a string of characters of code 0..255
btoa(s) == Base64Encode([i \in 1..Len(s) |-> charCode(s[i])])

RemoveSpaces(s) == SelectSeq(s, LAMBDA ch : ~IsSpace(ch))

\* the padding atob strips: one or two = at the end of a multiple of four
StripPadding(s) ==
    IF Len(s) % 4 = 0 /\ Len(s) >= 1 /\ s[Len(s)] = "="
    THEN IF Len(s) >= 2 /\ s[Len(s) - 1] = "="
         THEN SubSeq(s, 1, Len(s) - 2)
         ELSE SubSeq(s, 1, Len(s) - 1)
    ELSE s

\* the bytes of a run of base64 characters; the bits left over are dropped
RECURSIVE Base64Decode(_)
Base64Decode(s) ==
    LET n  == Len(s)
        v1 == Base64Value(s[1])
        v2 == Base64Value(s[2])
        v3 == Base64Value(s[3])
        v4 == Base64Value(s[4])
        o1 == v1 * 4 + (v2 \div 16)
        o2 == (v2 % 16) * 16 + (v3 \div 4)
        o3 == (v3 % 4) * 64 + v4
    IN  IF n < 2 THEN <<>>
        ELSE IF n = 2 THEN <<o1>>
        ELSE IF n = 3 THEN <<o1, o2>>
        ELSE <<o1, o2, o3>> \o Base64Decode(SubSeq(s, 5, n))

\* atob(s), the forgiving base64 decoding: ok is FALSE where atob throws
\* InvalidCharacterError, else s is the decoded string
atob(s) ==
    LET t == StripPadding(RemoveSpaces(s))
    IN  IF Len(t) % 4 = 1 \/ \E i \in 1..Len(t) : ~IsBase64Char(t[i])
        THEN [ok |-> FALSE, s |-> <<>>]
        ELSE [ok |-> TRUE,
              s  |-> LET bytes == Base64Decode(t)
                     IN  [i \in 1..Len(bytes) |-> fromCharCode(bytes[i])]]

(***************************************************************************)
(* Authentication: GET /basic-auth/:user/:passwd.                          *)
(***************************************************************************)
\* the strings over an alphabet of length lo..hi
StringsOf(alphabet, lo, hi) == UNION {[1..k -> alphabet] : k \in lo..hi}

\* a value that may be undefined (a missing header, a missing array element)
Undefined == [def |-> FALSE, s |-> <<>>]

Str(s) == [def |-> TRUE, s |-> s]

\* the truthiness of a string value: undefined and "" are falsy
Truthy(x) == x.def /\ x.s # <<>>

\* String.prototype.startsWith
startsWith(s, prefix) ==
    Len(s) >= Len(prefix) /\ SubSeq(s, 1, Len(prefix)) = prefix

\* String.prototype.substring(from)
substring(s, from) == SubSeq(s, from + 1, Len(s))

\* String.prototype.split(sep) for a one-character separator
RECURSIVE SplitFrom(_, _, _)
SplitFrom(s, sep, current) ==
    IF s = <<>> THEN <<current>>
    ELSE IF Head(s) = sep THEN <<current>> \o SplitFrom(Tail(s), sep, <<>>)
    ELSE SplitFrom(Tail(s), sep, Append(current, Head(s)))

split(s, sep) == SplitFrom(s, sep, <<>>)

\* element i of an array, undefined past its end
At(parts, i) == IF i <= Len(parts) THEN Str(parts[i]) ELSE Undefined

BasicPrefix == <<"B", "a", "s", "i", "c", " ">>

BearerPrefix == <<"B", "e", "a", "r", "e", "r", " ">>

BasicChallenge == "Basic realm=\"Fake Realm\""

AuthResponse(status, challenge, authenticated, user, thrown) ==
    [status |-> status, wwwAuthenticate |-> challenge,
     authenticated |-> authenticated, user |-> user, thrown |-> thrown]

NoAuthResponse == AuthResponse(0, "", FALSE, <<>>, FALSE)

\* c.header("WWW-Authenticate", ...); return c.body(null, 401)
Unauthorized(challenge) == AuthResponse(401, challenge, FALSE, <<>>, FALSE)

\* an exception the handler does not catch: the framework answers 500
Thrown == AuthResponse(500, "", FALSE, <<>>, TRUE)

\* const [providedUser, providedPasswd] = credentials.split(":")
ProvidedCredentials(credentials) ==
    LET parts == split(credentials, ":")
    IN  [user |-> At(parts, 1), passwd |-> At(parts, 2)]

\* GET /basic-auth/:user/:passwd
BasicAuthHandler(req) ==
    IF ~Truthy(req.authorization) \/ ~startsWith(req.authorization.s, BasicPrefix)
    THEN Unauthorized(BasicChallenge)
    ELSE LET credentials == atob(substring(req.authorization.s, 6))
         IN  IF ~credentials.ok THEN Thrown
             ELSE LET provided == ProvidedCredentials(credentials.s)
                  IN  IF provided.user # Str(req.user) \/ provided.passwd # Str(req.passwd)
                      THEN Unauthorized(BasicChallenge)
                      ELSE AuthResponse(200, "", TRUE, req.user, FALSE)

AuthAlphabet == {"a", "b", ":"}

\* the path parameters: a route parameter is never empty
AuthUsers == StringsOf(AuthAlphabet, 1, MaxUserLen)

AuthPasswds == StringsOf(AuthAlphabet, 1, MaxPasswdLen)

\* the Authorization headers a client sends: none, empty, well-formed Basic
\* credentials, and headers that are not Basic or not base64
AuthHeaders ==
    {Undefined, Str(<<>>)}
        \cup {Str(BasicPrefix \o btoa(c)) : c \in StringsOf(AuthAlphabet, 0, MaxCredLen)}
        \cup {Str(BearerPrefix \o <<"a", "b">>),
              Str(<<"B", "a", "s", "i", "c">>),
              Str(<<"b", "a", "s", "i", "c", " ", "Y", "T", "p", "h">>),
              Str(BasicPrefix \o <<"Y", "T", "p", "h", "Y">>),
              Str(BasicPrefix \o <<"!", "!">>),
              Str(BasicPrefix \o <<"Y", "T", "p", "h">>),
              Str(BasicPrefix \o <<"Y", "W", "E">>)}

\* c.req.header(name): the Headers object of a Request holds each value with
\* its leading and trailing HTTP white space removed
HeaderValue(raw) == IF raw.def THEN Str(Trim(raw.s)) ELSE raw

AuthRequest(route, user, passwd, authorization) ==
    [route |-> route, user |-> user, passwd |-> passwd, authorization |-> authorization]

InitAuth ==
    /\ pc = "idle"
    /\ request = AuthRequest("", <<>>, <<>>, Undefined)
    /\ response = NoAuthResponse
    /\ history = <<>>

\* one request to /basic-auth/:user/:passwd and its response
HandleBasicAuth ==
    /\ pc = "idle"
    /\ \E u \in AuthUsers, p \in AuthPasswds, h \in AuthHeaders :
         LET req == AuthRequest("/basic-auth", u, p, HeaderValue(h))
         IN  /\ request' = req
             /\ response' = BasicAuthHandler(req)
    /\ pc' = "done"
    /\ UNCHANGED history

BearerChallenge == "Bearer"

BearerResponse(status, challenge, authenticated, token) ==
    [status |-> status, wwwAuthenticate |-> challenge,
     authenticated |-> authenticated, token |-> token]

\* a handler that accepts the scheme word without the space after it
BearerHandler_SchemeWord(req) ==
    IF ~Truthy(req.authorization)
          \/ ~startsWith(req.authorization.s, <<"B", "e", "a", "r", "e", "r">>)
    THEN BearerResponse(401, BearerChallenge, FALSE, <<>>)
    ELSE BearerResponse(200, "", TRUE, substring(req.authorization.s, 7))

\* GET /bearer
BearerHandler(req) ==
    IF ~Truthy(req.authorization) \/ ~startsWith(req.authorization.s, BearerPrefix)
    THEN BearerResponse(401, BearerChallenge, FALSE, <<>>)
    ELSE LET token == substring(req.authorization.s, 7)
         IN  BearerResponse(200, "", TRUE, token)

BearerAlphabet == {"a", " "}

\* the Authorization header as the client writes it: none, empty, the Bearer
\* prefix with a token (white space included), the bare scheme word, other
\* schemes and other spellings
RawBearerHeaders ==
    {Undefined, Str(<<>>), Str(<<" ">>)}
        \cup {Str(BearerPrefix \o t) : t \in StringsOf(BearerAlphabet, 0, MaxTokenLen)}
        \cup {Str(<<" ">> \o BearerPrefix \o t) : t \in StringsOf(BearerAlphabet, 0, 1)}
        \cup {Str(<<"B", "e", "a", "r", "e", "r">> \o t) : t \in StringsOf({"a"}, 0, MaxTokenLen)}
        \cup {Str(<<"b", "e", "a", "r", "e", "r", " ">> \o t) : t \in StringsOf({"a"}, 0, MaxTokenLen)}
        \cup {Str(BasicPrefix \o t) : t \in StringsOf({"a"}, 0, MaxTokenLen)}
        \cup {Str(<<"B", "e", "a", "r", " ">> \o t) : t \in StringsOf(BearerAlphabet, 0, MaxTokenLen)}

\* one request to /bearer and its response
HandleBearer ==
    /\ pc = "idle"
    /\ \E raw \in RawBearerHeaders :
         LET req == AuthRequest("/bearer", <<>>, <<>>, HeaderValue(raw))
         IN  /\ request' = req
             /\ response' = BearerHandler(req)
             /\ history' = <<raw>>
    /\ pc' = "done"

NextAuth ==
    \/ HandleBasicAuth
    \/ HandleBearer

SpecAuth == InitAuth /\ [][NextAuth]_vars

\* the credentials a Basic header carries, when they decode
DecodedCredentials == atob(substring(request.authorization.s, 6))

BasicAuthDecoded ==
    /\ pc = "done"
    /\ request.route = "/basic-auth"
    /\ Truthy(request.authorization)
    /\ startsWith(request.authorization.s, BasicPrefix)
    /\ DecodedCredentials.ok

\* C2: /basic-auth/:user/:passwd answers 200 only when the decoded credentials
\* are exactly user ":" passwd (colons inside the password included); every
\* other decoded credential string gets 401 with the Basic challenge.
C2_ExactCredentials ==
    BasicAuthDecoded =>
        IF DecodedCredentials.s = request.user \o <<":">> \o request.passwd
        THEN response.status \in {200, 401}
        ELSE /\ response.status = 401
             /\ response.wwwAuthenticate = BasicChallenge

BearerDone == pc = "done" /\ request.route = "/bearer"

\* the header the client wrote
RawAuthorization == history[1]

\* the client wrote "Bearer " followed by a token that is not empty once the
\* white space around the header value is dropped
CarriesBearerToken ==
    /\ RawAuthorization.def
    /\ startsWith(Trim(RawAuthorization.s), BearerPrefix)
    /\ Len(Trim(RawAuthorization.s)) > Len(BearerPrefix)

BasicAuthDone == pc = "done" /\ request.route = "/basic-auth"

\* C23: every request to GET /basic-auth/:user/:passwd ends in a normal
\* response that is either 200 or 401 with the Basic challenge header; failed
\* authentication is never an exception, also when the text after "Basic "
\* is not valid base64 or decodes to a string without a colon.
C23_NormalResponse ==
    BasicAuthDone =>
        /\ ~response.thrown
        /\ \/ response.status = 200
           \/ response.status = 401 /\ response.wwwAuthenticate = BasicChallenge

\* C11: /bearer answers 200 {authenticated: true, token} only for an
\* Authorization header "Bearer " followed by a non-empty token, the token
\* being the header text after the prefix; a missing header, another scheme,
\* the bare word Bearer and an empty token after the prefix get 401 with
\* WWW-Authenticate: Bearer.
C11_BearerToken ==
    BearerDone =>
        IF CarriesBearerToken
        THEN /\ response.status = 200
             /\ response.authenticated
             /\ response.token # <<>>
             /\ BearerPrefix \o response.token = Trim(RawAuthorization.s)
        ELSE /\ response.status = 401
             /\ response.wwwAuthenticate = BearerChallenge
             /\ ~response.authenticated

\* "Bearer " with nothing after the prefix is answered 401
C11_Witness ==
    /\ BearerDone
    /\ RawAuthorization = Str(BearerPrefix)
    /\ response.status = 401
    /\ response.wwwAuthenticate = BearerChallenge

(***************************************************************************)
(* Redirect chains: /redirect/:n, /relative-redirect/:n,                   *)
(* /absolute-redirect/:n and the client that follows Location.             *)
(***************************************************************************)
\* a URL: origin "" for a relative reference, the route prefix, the path
\* parameter and the value of the absolute query parameter (<<>>: absent)
Url(origin, prefix, param, absolute) ==
    [origin |-> origin, prefix |-> prefix, param |-> param, absolute |-> absolute]

RequestOrigin == "http://httpbin.test"

\* the same host reached over https
SecureOrigin == "https://httpbin.test"

NoRequest == Url("", "", <<>>, <<>>)

NoResponse == [status |-> 0, location |-> NoRequest, error |-> ""]

\* c.redirect(location, 302)
Redirect302(location) == [status |-> 302, location |-> location, error |-> ""]

\* c.json({ error: "Invalid redirect count" }, 400)
InvalidCount ==
    [status |-> 400, location |-> NoRequest, error |-> "Invalid redirect count"]

\* buildAbsoluteUrl(c, path)
buildAbsoluteUrl(req, prefix, param) == Url(req.origin, prefix, param, <<>>)

RelativeUrl(prefix, param) == Url("", prefix, param, <<>>)

\* GET /redirect/:n
RedirectHandler(req) ==
    LET n        == parseInt(req.param)
        absolute == toLowerCase(req.absolute) = <<"t", "r", "u", "e">>
    IN  IF n.nan \/ n.v < 1 THEN InvalidCount
        ELSE IF n.v = 1
        THEN IF absolute
             THEN Redirect302(buildAbsoluteUrl(req, "/get", <<>>))
             ELSE Redirect302(RelativeUrl("/get", <<>>))
        ELSE IF absolute
        THEN Redirect302(buildAbsoluteUrl(req, "/absolute-redirect/", toString(n.v - 1)))
        ELSE Redirect302(RelativeUrl("/relative-redirect/", toString(n.v - 1)))

\* a relative redirect that forgets to decrement the count
RelativeRedirectHandler_NoDecrement(req) ==
    LET n == parseInt(req.param)
    IN  IF n.nan \/ n.v < 1 THEN InvalidCount
        ELSE IF n.v = 1 THEN Redirect302(RelativeUrl("/get", <<>>))
        ELSE Redirect302(RelativeUrl("/relative-redirect/", toString(n.v)))

\* GET /relative-redirect/:n
RelativeRedirectHandler(req) ==
    LET n == parseInt(req.param)
    IN  IF n.nan \/ n.v < 1 THEN InvalidCount
        ELSE IF n.v = 1 THEN Redirect302(RelativeUrl("/get", <<>>))
        ELSE Redirect302(RelativeUrl("/relative-redirect/", toString(n.v - 1)))

\* an absolute redirect whose last hop is a relative Location
AbsoluteRedirectHandler_RelativeGet(req) ==
    LET n == parseInt(req.param)
    IN  IF n.nan \/ n.v < 1 THEN InvalidCount
        ELSE IF n.v = 1 THEN Redirect302(RelativeUrl("/get", <<>>))
        ELSE Redirect302(buildAbsoluteUrl(req, "/absolute-redirect/", toString(n.v - 1)))

\* GET /absolute-redirect/:n
AbsoluteRedirectHandler(req) ==
    LET n == parseInt(req.param)
    IN  IF n.nan \/ n.v < 1 THEN InvalidCount
        ELSE IF n.v = 1 THEN Redirect302(buildAbsoluteUrl(req, "/get", <<>>))
        ELSE Redirect302(buildAbsoluteUrl(req, "/absolute-redirect/", toString(n.v - 1)))

\* the path parameters a client starts a chain with
StartParams ==
    {toString(n) : n \in 0..MaxN}
        \cup {<<"-", "1">>, <<"a">>, <<"2", "a">>, <<"1", ".", "5">>, <<" ", "2">>}

\* the values of the absolute query parameter (<<>>: no such parameter)
AbsoluteFlags == {<<>>, <<"t", "r", "u", "e">>, <<"T", "r", "u", "e">>, <<"1">>}

StartRoutes == {"/redirect/", "/relative-redirect/", "/absolute-redirect/"}

InitRedirect ==
    /\ pc = "idle"
    /\ request = NoRequest
    /\ response = NoResponse
    /\ history = <<>>

\* the client sends the first request of a chain
ClientStart ==
    /\ pc = "idle"
    /\ \E origin \in {RequestOrigin, SecureOrigin},
          route \in StartRoutes, n \in StartParams, a \in AbsoluteFlags :
         request' = Url(origin, route, n, a)
    /\ pc' = "sent"
    /\ UNCHANGED <<response, history>>

Serve(prefix, result) ==
    /\ pc = "sent"
    /\ request.prefix = prefix
    /\ response' = result
    /\ history' = Append(history, [request |-> request, response |-> result])
    /\ pc' = "received"
    /\ UNCHANGED request

ServeRedirect == Serve("/redirect/", RedirectHandler(request))

ServeRelativeRedirect == Serve("/relative-redirect/", RelativeRedirectHandler(request))

ServeAbsoluteRedirect == Serve("/absolute-redirect/", AbsoluteRedirectHandler(request))

\* GET /get ends every chain
ServeGet == Serve("/get", [status |-> 200, location |-> NoRequest, error |-> ""])

\* the client resolves Location against the URL it requested and follows it
ClientFollow ==
    /\ pc = "received"
    /\ response.status = 302
    /\ request' = [response.location EXCEPT
                     !.origin = IF @ = "" THEN request.origin ELSE @]
    /\ pc' = "sent"
    /\ UNCHANGED <<response, history>>

\* a response that is no redirect ends the chain
ClientStop ==
    /\ pc = "received"
    /\ response.status # 302
    /\ pc' = "done"
    /\ UNCHANGED <<request, response, history>>

NextRedirect ==
    \/ ClientStart
    \/ ServeRedirect
    \/ ServeRelativeRedirect
    \/ ServeAbsoluteRedirect
    \/ ServeGet
    \/ ClientFollow
    \/ ClientStop

SpecRedirect == InitRedirect /\ [][NextRedirect]_vars

\* the first request of the chain and its redirect count
ChainStart == history[1].request

ChainCount == parseInt(ChainStart.param)

\* a chain started at /redirect/n, n >= 1, with no absolute query parameter
RelativeChainStarted ==
    /\ history # <<>>
    /\ ChainStart.prefix = "/redirect/"
    /\ ChainStart.absolute = <<>>
    /\ ~ChainCount.nan
    /\ ChainCount.v >= 1

\* C1: a client that starts at GET /redirect/n (n >= 1, no absolute flag) and
\* follows Location receives exactly n responses 302 and then the 200 of /get:
\* the k-th redirect (k < n) points to /relative-redirect/(n-k), the n-th to
\* /get, so the count strictly decreases and the chain never loops.
C1_RelativeChain ==
    RelativeChainStarted =>
        LET n == ChainCount.v
        IN  /\ Len(history) <= n + 1
            /\ \A k \in 1..Len(history) :
                 LET r == history[k].response
                 IN  /\ k < n => /\ r.status = 302
                                 /\ r.location =
                                      RelativeUrl("/relative-redirect/", toString(n - k))
                     /\ k = n => /\ r.status = 302
                                 /\ r.location = RelativeUrl("/get", <<>>)
                     /\ k = n + 1 => /\ r.status = 200
                                     /\ history[k].request.prefix = "/get"
            /\ pc = "done" => Len(history) = n + 1

\* a chain of three redirects that reached /get
C1_Witness ==
    /\ RelativeChainStarted
    /\ ChainStart.param = <<"3">>
    /\ pc = "done"
    /\ Len(history) = 4
    /\ history[2].request.prefix = "/relative-redirect/"
    /\ response.status = 200

\* a chain started at /redirect/n?absolute=true, n >= 1
AbsoluteChainStarted ==
    /\ history # <<>>
    /\ ChainStart.prefix = "/redirect/"
    /\ ChainStart.absolute = <<"t", "r", "u", "e">>
    /\ ~ChainCount.nan
    /\ ChainCount.v >= 1

\* C21: a chain started at GET /redirect/n?absolute=true (n >= 1) stays in
\* absolute mode to its end: every Location is an absolute URL on the origin
\* of the request, the k-th (k < n) is /absolute-redirect/(n-k), the n-th is
\* the absolute /get URL, and no hop is a relative Location or a
\* /relative-redirect path.
C21_AbsoluteChain ==
    AbsoluteChainStarted =>
        LET n == ChainCount.v
        IN  /\ Len(history) <= n + 1
            /\ \A k \in 1..Len(history) :
                 LET hop == history[k]
                 IN  /\ hop.request.origin = ChainStart.origin
                     /\ hop.request.prefix # "/relative-redirect/"
                     /\ k <= n => /\ hop.response.status = 302
                                  /\ hop.response.location.origin = ChainStart.origin
                                  /\ hop.response.location.origin # ""
                     /\ k < n => /\ hop.response.location.prefix = "/absolute-redirect/"
                                 /\ hop.response.location.param = NatToString(n - k)
                     /\ k = n => /\ hop.response.location.prefix = "/get"
                                 /\ hop.response.location.param = <<>>
                     /\ k = n + 1 => /\ hop.response.status = 200
                                     /\ hop.request.prefix = "/get"
            /\ pc = "done" => Len(history) = n + 1

\* an absolute chain of three redirects over https that reached /get
C21_Witness ==
    /\ AbsoluteChainStarted
    /\ ChainStart.origin = SecureOrigin
    /\ ChainStart.param = <<"3">>
    /\ pc = "done"
    /\ Len(history) = 4
    /\ history[2].request.prefix = "/absolute-redirect/"
    /\ history[3].response.location = Url(SecureOrigin, "/get", <<>>, <<>>)
    /\ response.status = 200

\* the text is, in its entirety, an integer >= 1 in decimal digits
IsCount(text) ==
    /\ text # <<>>
    /\ \A i \in 1..Len(text) : IsDigit(text[i])
    /\ \E i \in 1..Len(text) : text[i] # "0"

RedirectRoutes == {"/redirect/", "/relative-redirect/", "/absolute-redirect/"}

\* C22: /redirect/:n, /relative-redirect/:n and /absolute-redirect/:n answer
\* 400 and send no Location whenever n is not an integer >= 1: zero, negative
\* numbers, non-numeric text, and text that is not an integer in its
\* entirety, such as "3abc" or "1.5".
C22_InvalidCountRejected ==
    \A k \in 1..Len(history) :
        (history[k].request.prefix \in RedirectRoutes /\ ~IsCount(history[k].request.param))
            => /\ history[k].response.status = 400
               /\ history[k].response.location = NoRequest

(***************************************************************************)
(* Conditional requests: GET /etag/:etag.                                  *)
(***************************************************************************)
\* Array.prototype.includes
includes(list, x) == \E i \in 1..Len(list) : list[i] = x

\* the longest prefix of s without a double quote: ([^"]*)
RECURSIVE UpToQuote(_)
UpToQuote(s) ==
    IF s # <<>> /\ Head(s) # "\"" THEN <<Head(s)>> \o UpToQuote(Tail(s)) ELSE <<>>

WeakMarker == <<"W", "/">>

\* a match that does not strip the weak marker W/
MatchTag_KeepsWeak(part) ==
    LET afterSpace == TrimStart(part)
        afterQuote == IF afterSpace # <<>> /\ Head(afterSpace) = "\""
                      THEN Tail(afterSpace) ELSE afterSpace
    IN  UpToQuote(afterQuote)

\* part.match(/\s*(W\/)?"?([^"]*)"?\s*/)[2]: every piece of the pattern is
\* optional and greedy, so the match starts at index 0 and never backtracks
MatchTag(part) ==
    LET afterSpace == TrimStart(part)
        afterWeak  == IF startsWith(afterSpace, WeakMarker)
                      THEN substring(afterSpace, 2) ELSE afterSpace
        afterQuote == IF afterWeak # <<>> /\ Head(afterWeak) = "\""
                      THEN Tail(afterWeak) ELSE afterWeak
    IN  UpToQuote(afterQuote)

\* parseMultiValueHeader(headerStr)
parseMultiValueHeader(headerStr) ==
    IF ~Truthy(headerStr) THEN <<>>
    ELSE LET parts == split(headerStr.s, ",")
         IN  [i \in 1..Len(parts) |-> MatchTag(parts[i])]

Quote(s) == <<"\"">> \o s \o <<"\"">>

\* the ETag response header: `"${etag}"` in the first definition of the route,
\* the bare etag in the second
EtagHeader(req) == IF req.definition = 1 THEN Str(Quote(req.etag)) ELSE Str(req.etag)

EtagResponse(status, etag, body) == [status |-> status, etag |-> etag, body |-> body]

\* a handler that looks at If-Match before If-None-Match
EtagHandler_IfMatchFirst(req) ==
    LET ifNoneMatch == parseMultiValueHeader(req.ifNoneMatch)
        ifMatch     == parseMultiValueHeader(req.ifMatch)
    IN  IF Len(ifMatch) > 0 /\ ~includes(ifMatch, req.etag) /\ ~includes(ifMatch, <<"*">>)
        THEN EtagResponse(412, Undefined, "")
        ELSE IF Len(ifNoneMatch) > 0
                /\ (includes(ifNoneMatch, req.etag) \/ includes(ifNoneMatch, <<"*">>))
        THEN EtagResponse(304, EtagHeader(req), "")
        ELSE EtagResponse(200, EtagHeader(req), "echo")

\* a handler whose If-Match test forgets the wildcard
EtagHandler_NoWildcard(req) ==
    LET ifNoneMatch == parseMultiValueHeader(req.ifNoneMatch)
        ifMatch     == parseMultiValueHeader(req.ifMatch)
    IN  IF Len(ifNoneMatch) > 0
           /\ (includes(ifNoneMatch, req.etag) \/ includes(ifNoneMatch, <<"*">>))
        THEN EtagResponse(304, EtagHeader(req), "")
        ELSE IF Len(ifNoneMatch) = 0 /\ Len(ifMatch) > 0 /\ ~includes(ifMatch, req.etag)
        THEN EtagResponse(412, Undefined, "")
        ELSE EtagResponse(200, EtagHeader(req), "echo")

\* GET /etag/:etag; body "" is c.body(null, ...), body "echo" the JSON echo
EtagHandler(req) ==
    LET ifNoneMatch == parseMultiValueHeader(req.ifNoneMatch)
        ifMatch     == parseMultiValueHeader(req.ifMatch)
    IN  IF Len(ifNoneMatch) > 0
           /\ (includes(ifNoneMatch, req.etag) \/ includes(ifNoneMatch, <<"*">>))
        THEN EtagResponse(304, EtagHeader(req), "")
        ELSE IF Len(ifNoneMatch) = 0 /\ Len(ifMatch) > 0
                /\ ~includes(ifMatch, req.etag) /\ ~includes(ifMatch, <<"*">>)
        THEN EtagResponse(412, Undefined, "")
        ELSE EtagResponse(200, EtagHeader(req), "echo")

\* the tags a client names, and the ways it writes one in a header
Tags == {<<"a">>, <<"b">>, <<"*">>}

Bare(t) == t

Weak(t) == WeakMarker \o Quote(t)

WeakBare(t) == WeakMarker \o t

TagForms(t) == {Bare(t), Quote(t), Weak(t), WeakBare(t)}

Padded(item, lead, trail) ==
    (IF lead THEN <<" ">> ELSE <<>>) \o item \o (IF trail THEN <<" ">> ELSE <<>>)

ListItems ==
    {Padded(f, lead, trail) : f \in UNION {TagForms(t) : t \in Tags},
                              lead \in BOOLEAN, trail \in BOOLEAN}

\* the header values the runtime hands to the handler: absent, empty, or a
\* list of one or two items; the Headers object trims the value's ends
ConditionalHeaders ==
    {Undefined, Str(<<>>)}
        \cup {Str(Trim(i)) : i \in ListItems}
        \cup {Str(Trim(i \o <<",">> \o j)) : i \in ListItems, j \in ListItems}

\* a few header values, for the header a claim is not about
FewHeaders ==
    {Undefined, Str(<<>>), Str(<<"a">>), Str(Quote(<<"b">>)), Str(<<"*">>),
     Str(Quote(<<"b">>) \o <<",", " ">> \o Quote(<<"a">>))}

\* the :etag path values: bare tags, and a value written with its quotes
EtagParams == {<<"a">>, <<"b">>, Quote(<<"a">>)}

EtagRequest(definition, etag, ifNoneMatch, ifMatch) ==
    [definition |-> definition, etag |-> etag,
     ifNoneMatch |-> ifNoneMatch, ifMatch |-> ifMatch]

InitEtag ==
    /\ pc = "idle"
    /\ request = EtagRequest(1, <<>>, Undefined, Undefined)
    /\ response = EtagResponse(0, Undefined, "")
    /\ history = <<>>

\* one request to /etag/:etag and its response, under either definition
HandleEtag ==
    /\ pc = "idle"
    /\ \E d \in {1, 2}, e \in EtagParams,
          h \in (ConditionalHeaders \X FewHeaders) \cup (FewHeaders \X ConditionalHeaders) :
         LET req == EtagRequest(d, e, h[1], h[2])
         IN  /\ request' = req
             /\ response' = EtagHandler(req)
    /\ pc' = "done"
    /\ UNCHANGED history

NextEtag == HandleEtag

SpecEtag == InitEtag /\ [][NextEtag]_vars

EtagDone == pc = "done"

\* the pieces of a comma-separated header value
ListParts(header) == split(header.s, ",")

HasQuote(s) == \E i \in 1..Len(s) : s[i] = "\""

\* the header lists the tag bare, double-quoted or W/-prefixed and quoted,
\* with optional white space around the item
ListsInAnyForm(header, tag) ==
    \E i \in 1..Len(ListParts(header)) :
        Trim(ListParts(header)[i]) \in {Bare(tag), Quote(tag), Weak(tag)}

\* the ETag header C3 expects: the etag in double quotes (a path value that
\* already carries its quotes may also be sent as it is)
ClaimedEtagHeader(etag) ==
    IF HasQuote(etag) THEN {Str(Quote(etag)), Str(etag)} ELSE {Str(Quote(etag))}

\* C3 as stated: a non-empty If-None-Match that lists the etag in any accepted
\* form (bare, quoted, W/-quoted, optional surrounding white space) or lists *
\* gets 304, an empty body and the etag in double quotes as ETag, also when the
\* path value is written with quotes (/etag/"abc" with If-None-Match: "abc").
C3_AnyFormMatches ==
    (/\ EtagDone
     /\ Truthy(request.ifNoneMatch)
     /\ \/ ListsInAnyForm(request.ifNoneMatch, request.etag)
        \/ ListsInAnyForm(request.ifNoneMatch, <<"*">>))
    => /\ response.status = 304
       /\ response.body = ""
       /\ response.etag \in ClaimedEtagHeader(request.etag)

\* the header lists the tag in a form the handler unwraps to the tag: bare or
\* W/-prefixed with optional white space before it only, or quoted or
\* W/-prefixed and quoted with optional white space on both sides
ListsUnwrapped(header, tag) ==
    \E i \in 1..Len(ListParts(header)) :
        \/ TrimStart(ListParts(header)[i]) \in {Bare(tag), WeakBare(tag)}
        \/ Trim(ListParts(header)[i]) \in {Quote(tag), Weak(tag)}

MentionsStar(header) == \E i \in 1..Len(header.s) : header.s[i] = "*"

\* what the handlers do for If-None-Match: a non-empty header that lists the
\* path value itself (a value without double quotes) in a form the handler
\* unwraps, or lists *, gets 304, an empty body and the ETag header: the etag
\* in double quotes in the first definition of the route, the bare etag in
\* the second.  A path value written with quotes is compared with its quotes:
\* it gets 304 only through *.
C3_LiteralTagMatches ==
    EtagDone /\ Truthy(request.ifNoneMatch) =>
        /\ (\/ ~HasQuote(request.etag) /\ ListsUnwrapped(request.ifNoneMatch, request.etag)
            \/ ListsUnwrapped(request.ifNoneMatch, <<"*">>))
           => /\ response.status = 304
              /\ response.body = ""
              /\ response.etag = IF request.definition = 1
                                 THEN Str(Quote(request.etag))
                                 ELSE Str(request.etag)
        /\ HasQuote(request.etag) /\ ~MentionsStar(request.ifNoneMatch)
           => response.status # 304

\* /etag/a with If-None-Match: W/"a" answered 304
C3_Witness ==
    /\ EtagDone
    /\ request.etag = <<"a">>
    /\ request.ifNoneMatch = Str(Weak(<<"a">>))
    /\ response.status = 304
    /\ response.etag = Str(Quote(<<"a">>))

\* C4: with no (or an empty) If-None-Match and a non-empty If-Match, the
\* response is 412 with an empty body exactly when the parsed If-Match list
\* holds neither the etag nor *; otherwise it is 200 with the echo body and
\* the ETag header.
C4_IfMatchPrecondition ==
    (EtagDone /\ ~Truthy(request.ifNoneMatch) /\ Truthy(request.ifMatch)) =>
        LET ifMatch == parseMultiValueHeader(request.ifMatch)
        IN  IF ~includes(ifMatch, request.etag) /\ ~includes(ifMatch, <<"*">>)
            THEN response.status = 412 /\ response.body = ""
            ELSE /\ response.status = 200
                 /\ response.body = "echo"
                 /\ response.etag.def

\* /etag/a with If-Match: "b" and no If-None-Match answered 412, and the
\* wildcard case answered 200
C4_Witness ==
    /\ EtagDone
    /\ request.etag = <<"a">>
    /\ ~request.ifNoneMatch.def
    /\ request.ifMatch = Str(Quote(<<"b">>))
    /\ response.status = 412

\* C5: when both If-None-Match and If-Match are non-empty only If-None-Match
\* is evaluated: 304 if it matches, 200 otherwise, never 412.
C5_IfNoneMatchFirst ==
    (EtagDone /\ Truthy(request.ifNoneMatch) /\ Truthy(request.ifMatch)) =>
        LET ifNoneMatch == parseMultiValueHeader(request.ifNoneMatch)
        IN  /\ response.status # 412
            /\ IF includes(ifNoneMatch, request.etag) \/ includes(ifNoneMatch, <<"*">>)
               THEN response.status = 304
               ELSE response.status = 200

\* both headers sent, If-Match names another tag, and the answer is still 200
C5_Witness ==
    /\ EtagDone
    /\ request.etag = <<"a">>
    /\ request.ifNoneMatch = Str(Quote(<<"b">>))
    /\ request.ifMatch = Str(Quote(<<"b">>))
    /\ response.status = 200

(***************************************************************************)
(* Status codes: /status/:codes.                                           *)
(***************************************************************************)
\* the Number Infinity, in tenths: above every finite value of the model
Infinity == 100000

InfinityText == <<"I", "n", "f", "i", "n", "i", "t", "y">>

\* parseFloat(s), in tenths: leading white space, an optional sign, then
\* Infinity, or digits and at most one digit after the point (the model's
\* numbers carry no more, and no exponent); whatever follows is ignored; NaN
\* when no number starts s
parseFloat(s) ==
    LET t        == TrimStart(s)
        neg      == t # <<>> /\ Head(t) = "-"
        sign     == t # <<>> /\ Head(t) \in {"-", "+"}
        u        == IF sign THEN Tail(t) ELSE t
        whole    == DigitPrefix(u)
        rest     == SubSeq(u, Len(whole) + 1, Len(u))
        fraction == IF rest # <<>> /\ Head(rest) = "." THEN DigitPrefix(Tail(rest)) ELSE <<>>
        tenths   == 10 * DigitsValue(whole, 0)
                      + (IF fraction = <<>> THEN 0 ELSE DigitVal(fraction[1]))
    IN  IF Len(u) >= Len(InfinityText) /\ SubSeq(u, 1, Len(InfinityText)) = InfinityText
        THEN Num(IF neg THEN -Infinity ELSE Infinity)
        ELSE IF whole = <<>> /\ fraction = <<>> THEN NaN
        ELSE Num(IF neg THEN -tenths ELSE tenths)

\* a + b on Numbers
Plus(a, b) == IF a.nan \/ b.nan THEN NaN ELSE Num(a.v + b.v)

\* the running totals of the weights: cumWeights
RECURSIVE CumWeights(_, _)
CumWeights(weights, total) ==
    IF weights = <<>> THEN <<>>
    ELSE <<Plus(total, Head(weights))>>
             \o CumWeights(Tail(weights), Plus(total, Head(weights)))

\* x <= c, where x = Math.random() * total and Math.random() = draw / RandomGrid;
\* a comparison with NaN is false
DrawAtMost(draw, total, c) ==
    ~total.nan /\ ~c.nan /\ draw * total.v <= c.v * RandomGrid

\* the first index j with x <= cumWeights[j], 0 when there is none
RECURSIVE FirstAtMost(_, _, _, _)
FirstAtMost(draw, total, cumWeights, j) ==
    IF j > Len(cumWeights) THEN 0
    ELSE IF DrawAtMost(draw, total, cumWeights[j]) THEN j - 1
    ELSE FirstAtMost(draw, total, cumWeights, j + 1)

\* a selection that falls back to the last entry when no cumulative weight
\* is reached
weightedChoice_DefaultLast(choices, draw) ==
    LET values     == [k \in 1..Len(choices) |-> choices[k][1]]
        weights    == [k \in 1..Len(choices) |-> choices[k][2]]
        cumWeights == CumWeights(weights, Num(0))
        total      == cumWeights[Len(cumWeights)]
    IN  IF \E j \in 1..Len(cumWeights) : DrawAtMost(draw, total, cumWeights[j])
        THEN values[FirstAtMost(draw, total, cumWeights, 1) + 1]
        ELSE values[Len(values)]

\* weightedChoice(choices), Math.random() returning draw / RandomGrid;
\* indices are the code's, from 0
weightedChoice(choices, draw) ==
    LET values     == [k \in 1..Len(choices) |-> choices[k][1]]
        weights    == [k \in 1..Len(choices) |-> choices[k][2]]
        cumWeights == CumWeights(weights, Num(0))
        total      == cumWeights[Len(cumWeights)]
        i          == FirstAtMost(draw, total, cumWeights, 1)
    IN  values[i + 1]

REDIRECT_LOCATION == "/redirect/1"

PaymentRequiredBody == "Fuck you, pay me!"

NotAcceptableBody ==
    "{\"message\":\"Client did not request a supported media type.\",\"accept\":[\"image/webp\",\"image/svg+xml\",\"image/jpeg\",\"image/png\",\"image/*\"]}"

ASCII_ART == "    -=[ teapot ]=- ..."

ProxyChallenge == BasicChallenge

\* an optional string: body or data left undefined
NoText == [def |-> FALSE, text |-> ""]

Text(t) == [def |-> TRUE, text |-> t]

\* codeMap[code]: data and headers, headers as a set of <<name, value>>
CodeMapEntry(data, headers) == [data |-> data, headers |-> headers]

RedirectEntry == CodeMapEntry(NoText, {<<"Location", REDIRECT_LOCATION>>})

CodeMapCodes == {301, 302, 303, 304, 305, 307, 401, 402, 406, 407, 418}

codeMap(code) ==
    CASE code \in {301, 302, 303, 305, 307} -> RedirectEntry
      [] code = 304 -> CodeMapEntry(Text(""), {})
      [] code = 401 -> CodeMapEntry(NoText, {<<"WWW-Authenticate", BasicChallenge>>})
      [] code = 402 -> CodeMapEntry(Text(PaymentRequiredBody),
                                    {<<"x-more-info", "http://vimeo.com/22053820">>})
      [] code = 406 -> CodeMapEntry(Text(NotAcceptableBody),
                                    {<<"Content-Type", "application/json">>})
      [] code = 407 -> CodeMapEntry(NoText, {<<"Proxy-Authenticate", ProxyChallenge>>})
      [] code = 418 -> CodeMapEntry(Text(ASCII_ART),
                                    {<<"x-more-info", "http://tools.ietf.org/html/rfc2324">>})

StatusResult(error, status, body, headers) ==
    [error |-> error, status |-> status, body |-> body, headers |-> headers]

\* a table that also redirects 304 and 306
createStatusCodeResponse_MoreRedirects(code) ==
    IF code \in {304, 306}
    THEN StatusResult("", code, NoText, RedirectEntry.headers)
    ELSE IF code \in CodeMapCodes
    THEN StatusResult("", code, codeMap(code).data, codeMap(code).headers)
    ELSE StatusResult("", code, NoText, {})

\* createStatusCodeResponse(code)
createStatusCodeResponse(code) ==
    IF code \in CodeMapCodes
    THEN StatusResult("", code, codeMap(code).data, codeMap(code).headers)
    ELSE StatusResult("", code, NoText, {})

\* { error: "Invalid status code", status: 400 }
InvalidStatus == StatusResult("Invalid status code", 400, NoText, {})

\* one choice of a list: [code, weight], or invalid
ParseChoice(choice) ==
    LET parts   == split(choice, ":")
        colon   == Len(parts) > 1
        codeStr == IF colon THEN parts[1] ELSE choice
        weight  == IF colon THEN parseFloat(parts[2]) ELSE Num(10)
        trimmedCodeStr == Trim(codeStr)
        code    == parseInt(trimmedCodeStr)
    IN  IF code.nan \/ toString(code.v) # trimmedCodeStr
        THEN [ok |-> FALSE, choice |-> <<0, NaN>>]
        ELSE [ok |-> TRUE, choice |-> <<code.v, weight>>]

\* a parser that accepts any text that starts with a number
handleStatusCodes_PrefixOnly(codes, draw) ==
    IF ~includes(codes, ",")
    THEN LET code == parseInt(codes)
         IN  IF code.nan THEN InvalidStatus ELSE createStatusCodeResponse(code.v)
    ELSE LET parts  == split(codes, ",")
             parsed == [k \in 1..Len(parts) |->
                          LET c == split(parts[k], ":")
                          IN  <<parseInt(c[1]),
                                IF Len(c) > 1 THEN parseFloat(c[2]) ELSE Num(10)>>]
         IN  IF \E k \in 1..Len(parsed) : parsed[k][1].nan
             THEN InvalidStatus
             ELSE createStatusCodeResponse(
                      weightedChoice([k \in 1..Len(parsed) |->
                                         <<parsed[k][1].v, parsed[k][2]>>], draw))

\* handleStatusCodes(codes), Math.random() returning draw / RandomGrid
handleStatusCodes(codes, draw) ==
    IF ~includes(codes, ",")
    THEN LET code == parseInt(codes)
         IN  IF code.nan \/ toString(code.v) # Trim(codes)
             THEN InvalidStatus
             ELSE createStatusCodeResponse(code.v)
    ELSE LET parts  == split(codes, ",")
             parsed == [k \in 1..Len(parts) |-> ParseChoice(parts[k])]
         IN  IF \E k \in 1..Len(parsed) : ~parsed[k].ok
             THEN InvalidStatus
             ELSE createStatusCodeResponse(
                      weightedChoice([k \in 1..Len(parsed) |-> parsed[k].choice], draw))

\* what statusCodeHandler hands to c.text: body, status, headers
StatusResponse(status, body, headers) ==
    [status |-> status, body |-> body, headers |-> headers]

\* statusCodeHandler(c)
statusCodeHandler(req) ==
    LET result == handleStatusCodes(req.codes, req.draw)
    IN  IF result.error # "" THEN StatusResponse(400, result.error, {})
        ELSE IF result.body.def
        THEN StatusResponse(result.status, result.body.text, result.headers)
        ELSE StatusResponse(result.status, "", result.headers)

\* the Response, or the answer of the framework to an exception that leaves
\* the handler
Delivered(thrown, status, body, headers) ==
    [thrown |-> thrown, status |-> status, body |-> body, headers |-> headers]

InternalServerError == Delivered(TRUE, 500, "Internal Server Error", {})

\* c.text(body, status, headers): new Response(body, { status, headers })
\* raises a RangeError for a status outside 200..599; a runtime that is
\* strict about the statuses without a body raises a TypeError for a body,
\* even an empty one, with 204, 205 or 304
cText(res, strict) ==
    IF res.status \notin 200..599 THEN InternalServerError
    ELSE IF strict /\ res.status \in {204, 205, 304} THEN InternalServerError
    ELSE Delivered(FALSE, res.status, res.body, res.headers)

\* the code tokens a client writes: codes of the table, other integers, and
\* texts that are no integer or have characters left over
SingleCodes ==
    {toString(n) : n \in CodeMapCodes \cup {200, 204, 306, 400, 404, 500}
                              \cup {-1, 100, 199, 205, 599, 600, 1000}}
        \cup {<<"a", "b", "c">>, toString(200) \o <<"a", "b", "c">>,
              <<"2", "a", "0">>, <<" ">> \o toString(301), toString(418) \o <<" ">>,
              <<"+">> \o toString(200), <<"0">> \o toString(200), <<"-", "0">>,
              <<"2", ".", "5">>, toString(200) \o <<":", "1">>}

ListCodes ==
    {toString(200), toString(500), <<" ">> \o toString(404), <<"x", "y", "z">>,
     <<>>, toString(200) \o <<"a">>}

\* the weight a client writes after the colon; NoWeight: no colon
NoWeight == <<"~">>

ListWeights ==
    {NoWeight, <<"0">>, <<"1">>, <<"2">>, <<"0", ".", "5">>, <<>>, <<"x">>}

Entry(code, weight) == IF weight = NoWeight THEN code ELSE code \o <<":">> \o weight

ListEntries == {Entry(c, w) : c \in ListCodes, w \in ListWeights}

\* three valid entries, weights 0 or 1 at every position
TripleSpecs ==
    {Entry(toString(200), <<w[1]>>) \o <<",">> \o Entry(toString(404), <<w[2]>>)
         \o <<",">> \o Entry(toString(500), <<w[3]>>) : w \in [1..3 -> {"0", "1"}]}

ListSpecs == {a \o <<",">> \o b : a \in ListEntries, b \in ListEntries} \cup TripleSpecs

StatusRequest(codes, draw) == [codes |-> codes, draw |-> draw]

InitStatus ==
    /\ pc = "idle"
    /\ request = StatusRequest(<<>>, 0)
    /\ response = StatusResponse(0, "", {})
    /\ history = Delivered(FALSE, 0, "", {})

\* one request to /status/:codes with a single code, and its response:
\* response is what the handler hands to c.text, history what c.text makes
\* of it
HandleStatusSingle ==
    /\ pc = "idle"
    /\ \E codes \in SingleCodes, strict \in BOOLEAN :
         LET req == StatusRequest(codes, 0)
         IN  /\ request' = req
             /\ response' = statusCodeHandler(req)
             /\ history' = cText(response', strict)
    /\ pc' = "done"

\* one request to /status/:codes with a list, the draw Math.random() makes,
\* and its response
HandleStatusList ==
    /\ pc = "idle"
    /\ \E codes \in ListSpecs, draw \in 0..(RandomGrid - 1), strict \in BOOLEAN :
         LET req == StatusRequest(codes, draw)
         IN  /\ request' = req
             /\ response' = statusCodeHandler(req)
             /\ history' = cText(response', strict)
    /\ pc' = "done"

NextStatus == HandleStatusSingle \/ HandleStatusList

SpecStatus == InitStatus /\ [][NextStatus]_vars

StatusDone == pc = "done"

IsList == includes(request.codes, ",")

\* the entries of the requested list as the handler reads them
RequestedChoices ==
    LET parts == split(request.codes, ",")
    IN  [k \in 1..Len(parts) |-> ParseChoice(parts[k])]

\* all entries are valid, all weights are numbers >= 0 and one is positive
PositiveWeightList ==
    /\ IsList
    /\ \A k \in 1..Len(RequestedChoices) :
         /\ RequestedChoices[k].ok
         /\ ~RequestedChoices[k].choice[2].nan
         /\ RequestedChoices[k].choice[2].v >= 0
    /\ \E k \in 1..Len(RequestedChoices) : RequestedChoices[k].choice[2].v > 0

\* C6: in weighted selection an entry of weight 0 is never selected: for any
\* order of entries with one positive weight and every draw in [0, total),
\* the selected code belongs to an entry whose weight is positive.
C6_ZeroWeightNeverSelected ==
    (StatusDone /\ PositiveWeightList) =>
        \E k \in 1..Len(RequestedChoices) :
            /\ RequestedChoices[k].choice[1] = response.status
            /\ RequestedChoices[k].choice[2].v > 0

\* every entry of the requested list is valid
AcceptedList ==
    IsList /\ \A k \in 1..Len(RequestedChoices) : RequestedChoices[k].ok

\* the sum of the first k weights of the requested list, in tenths
RECURSIVE WeightUpTo(_)
WeightUpTo(k) ==
    IF k = 0 THEN 0 ELSE WeightUpTo(k - 1) + RequestedChoices[k].choice[2].v

\* the cumulative weight of entry k is >= x, x being the request's draw
\* scaled to [0, total)
ReachedAt(k) ==
    request.draw * WeightUpTo(Len(RequestedChoices)) <= WeightUpTo(k) * RandomGrid

\* C27: weightedChoice returns, for non-negative weights with a positive
\* total and every draw x in [0, total), the code of the first entry whose
\* cumulative weight is >= x; the result is always a code of the list, every
\* entry of positive weight is selected by some draw, and when no cumulative
\* weight compares >= x (a weight that is not a number) the first entry is
\* returned.
C27_WeightedChoice ==
    (StatusDone /\ AcceptedList) =>
        /\ \E k \in 1..Len(RequestedChoices) : RequestedChoices[k].choice[1] = response.status
        /\ PositiveWeightList =>
              /\ \E k \in 1..Len(RequestedChoices) :
                    /\ ReachedAt(k)
                    /\ \A j \in 1..(k - 1) : ~ReachedAt(j)
                    /\ response.status = RequestedChoices[k].choice[1]
              /\ \A k \in 1..Len(RequestedChoices) :
                    RequestedChoices[k].choice[2].v > 0 =>
                        \E draw \in 0..(RandomGrid - 1) :
                            statusCodeHandler(StatusRequest(request.codes, draw)).status
                                = RequestedChoices[k].choice[1]
        /\ (\E k \in 1..Len(RequestedChoices) : RequestedChoices[k].choice[2].nan) =>
              response.status = RequestedChoices[1].choice[1]

\* of "200:1,500:2" the highest draw selected the second entry
C27_Witness ==
    /\ StatusDone
    /\ request.codes = Entry(toString(200), <<"1">>) \o <<",">> \o Entry(toString(500), <<"2">>)
    /\ request.draw = RandomGrid - 1
    /\ response.status = 500

\* with a weight that is not a number the first entry was returned
C27_WitnessNaN ==
    /\ StatusDone
    /\ request.codes = Entry(toString(200), <<"1">>) \o <<",">> \o Entry(toString(500), <<"x">>)
    /\ request.draw = RandomGrid - 1
    /\ response.status = 200

\* a text that is an integer and nothing else: an optional sign, then digits
IsIntegerText(t) ==
    LET unsigned == IF t # <<>> /\ Head(t) \in {"-", "+"} THEN Tail(t) ELSE t
    IN  unsigned # <<>> /\ \A i \in 1..Len(unsigned) : IsDigit(unsigned[i])

\* the code tokens of the requested spec: the spec itself, or the text of
\* each list entry before its colon
CodeTokens ==
    IF ~IsList THEN <<request.codes>>
    ELSE LET parts == split(request.codes, ",")
         IN  [k \in 1..Len(parts) |-> split(parts[k], ":")[1]]

Rejected ==
    /\ response.status = 400
    /\ response.body = "Invalid status code"
    /\ response.headers = {}

\* C7: a status spec is accepted only if every code token, trimmed, is an
\* integer with nothing left over; one failing token rejects the whole spec
\* with 400 and the text "Invalid status code".
C7_WholeTokenIntegers ==
    StatusDone =>
        /\ (\E k \in 1..Len(CodeTokens) : ~IsIntegerText(Trim(CodeTokens[k]))) => Rejected
        /\ ~Rejected => /\ \A k \in 1..Len(CodeTokens) : IsIntegerText(Trim(CodeTokens[k]))
                        /\ response.body # "Invalid status code"

\* "200,xyz" was rejected as a whole
C7_Witness ==
    /\ StatusDone
    /\ request.codes = toString(200) \o <<",">> \o <<"x", "y", "z">>
    /\ Rejected

HeaderNames(headers) == {h[1] : h \in headers}

C26_PlainCodeDelivered ==
    (/\ StatusDone
     /\ ~IsList
     /\ ~Rejected
     /\ parseInt(request.codes).v \notin CodeMapCodes) =>
        /\ ~history.thrown
        /\ history.status = parseInt(request.codes).v
        /\ history.body = ""

(***************************************************************************)
(* The open redirect: /redirect-to, all methods.                           *)
(***************************************************************************)
\* CaseInsensitiveDict: a Map from lower-cased key to value, here the
\* sequence of its <<key, value>> entries
EmptyDict == <<>>

MapSet(data, key, value) ==
    IF \E i \in 1..Len(data) : data[i][1] = key
    THEN [i \in 1..Len(data) |-> IF data[i][1] = key THEN <<key, value>> ELSE data[i]]
    ELSE Append(data, <<key, value>>)

MapHas(data, key) == \E i \in 1..Len(data) : data[i][1] = key

MapGet(data, key) ==
    IF MapHas(data, key)
    THEN Str(data[CHOOSE i \in 1..Len(data) : data[i][1] = key][2])
    ELSE Undefined

\* CaseInsensitiveDict.set, .get and .has
DictSet(data, key, value) == MapSet(data, toLowerCase(key), value)

DictGet(data, key) == MapGet(data, toLowerCase(key))

DictHas(data, key) == MapHas(data, toLowerCase(key))

\* a form field is a string or an uploaded File
FileValue == [file |-> TRUE, s |-> <<>>]

TextValue(v) == [file |-> FALSE, s |-> v]

\* params.set for each entry of an object, in order, skipping File values
RECURSIVE SetAll(_, _)
SetAll(data, entries) ==
    IF entries = <<>> THEN data
    ELSE SetAll(IF Head(entries)[2].file
                THEN data
                ELSE DictSet(data, Head(entries)[1], Head(entries)[2].s),
                Tail(entries))

FormUrlEncoded == "application/x-www-form-urlencoded"

MultipartFormData == "multipart/form-data"

\* contentType.includes(type): the content type is the sequence of its parts
IsFormContentType(contentType) ==
    includes(contentType, FormUrlEncoded) \/ includes(contentType, MultipartFormData)

\* parameters where the query string overrides the form
getAllParams_QueryWins(req) ==
    LET formPart == IF IsFormContentType(req.contentType) /\ ~req.form.throws
                    THEN SetAll(EmptyDict, req.form.entries)
                    ELSE EmptyDict
    IN  SetAll(formPart, req.query)

\* getAllParams(c): c.req.query() first, then c.req.parseBody() for the form
\* content types; an exception of parseBody is ignored
getAllParams(req) ==
    LET params == SetAll(EmptyDict, req.query)
    IN  IF IsFormContentType(req.contentType) /\ ~req.form.throws
        THEN SetAll(params, req.form.entries)
        ELSE params

RedirectToResponse(status, location, error) ==
    [status |-> status, location |-> location, error |-> error]

UrlKey == <<"u", "r", "l">>

StatusCodeKey == <<"s", "t", "a", "t", "u", "s", "_", "c", "o", "d", "e">>

\* handleRedirectTo(c)
handleRedirectTo(req) ==
    LET args == getAllParams(req)
        url  == DictGet(args, UrlKey)
        statusCodeStr == DictGet(args, StatusCodeKey)
        parsed == parseInt(statusCodeStr.s)
        statusCode ==
            IF DictHas(args, StatusCodeKey) /\ Truthy(statusCodeStr)
               /\ ~parsed.nan /\ parsed.v >= 300 /\ parsed.v < 400
            THEN parsed.v
            ELSE 302
    IN  IF ~Truthy(url)
        THEN RedirectToResponse(400, Undefined, "Missing url parameter")
        ELSE RedirectToResponse(statusCode, Str(url.s), "")

\* the parameter names a client writes, in several cases
UrlKeys == {UrlKey, <<"U", "R", "L">>}

StatusCodeKeys == {StatusCodeKey, <<"S", "t", "a", "t", "u", "s", "_", "C", "o", "d", "e">>}

QueryUrls == {<<"/", "a">>, <<>>}

FormUrls == {<<"/", "c">>, <<>>}

StatusTexts ==
    {toString(301), toString(399), toString(400), toString(299), <<"a", "b", "c">>,
     toString(301) \o <<"a", "b", "c">>, toString(307) \o <<".", "9">>, <<>>}

\* what c.req.query() returns: at most one entry per key as written, every
\* value a string
Queries ==
    LET urlPart == {<<>>, <<<<(<<"U", "R", "L">>), TextValue(<<"/", "a">>)>>,
                            <<UrlKey, TextValue(<<"/", "b">>)>>>>}
                       \cup {<<<<k, TextValue(v)>>>> : k \in UrlKeys, v \in QueryUrls}
        statusPart == {<<>>}
                       \cup {<<<<k, TextValue(v)>>>> : k \in StatusCodeKeys, v \in StatusTexts}
    IN  {u \o t : u \in urlPart, t \in statusPart}

\* what c.req.parseBody() returns, or that it throws
Forms ==
    LET urlPart == {<<>>, <<<<UrlKey, FileValue>>>>}
                       \cup {<<<<k, TextValue(v)>>>> : k \in UrlKeys, v \in FormUrls}
        statusPart == {<<>>} \cup {<<<<StatusCodeKey, TextValue(toString(n))>>>> : n \in {303, 500}}
    IN  {[throws |-> FALSE, entries |-> u \o t] : u \in urlPart, t \in statusPart}
            \cup {[throws |-> TRUE, entries |-> <<>>]}

ContentTypes ==
    {<<>>, <<FormUrlEncoded>>, <<MultipartFormData, "boundary=x">>, <<"application/json">>}

RedirectToRequest(query, contentType, form) ==
    [query |-> query, contentType |-> contentType, form |-> form]

InitRedirectTo ==
    /\ pc = "idle"
    /\ request = RedirectToRequest(<<>>, <<>>, [throws |-> FALSE, entries |-> <<>>])
    /\ response = RedirectToResponse(0, Undefined, "")
    /\ history = <<>>

\* one request to /redirect-to and its response
HandleRedirectTo ==
    /\ pc = "idle"
    /\ \E q \in Queries, ct \in ContentTypes, f \in Forms :
         LET req == RedirectToRequest(q, ct, f)
         IN  /\ request' = req
             /\ response' = handleRedirectTo(req)
    /\ pc' = "done"
    /\ UNCHANGED history

NextRedirectTo == HandleRedirectTo

SpecRedirectTo == InitRedirectTo /\ [][NextRedirectTo]_vars

RedirectToDone == pc = "done"

\* the positions of the text fields written with this name, in any case
NamedAt(entries, name) ==
    {i \in 1..Len(entries) : toLowerCase(entries[i][1]) = name /\ ~entries[i][2].file}

LastNamed(entries, name) ==
    entries[CHOOSE i \in NamedAt(entries, name) :
                \A j \in NamedAt(entries, name) : j <= i][2].s

\* the form fields of a request with a form content type whose body parses
FormFields ==
    IF (FormUrlEncoded \in {request.contentType[i] : i \in 1..Len(request.contentType)}
        \/ MultipartFormData \in {request.contentType[i] : i \in 1..Len(request.contentType)})
       /\ ~request.form.throws
    THEN request.form.entries
    ELSE <<>>

\* the value supplied for a parameter: the form's if the form has it, else
\* the query's, else none
Supplied(name) ==
    IF NamedAt(FormFields, name) # {} THEN Str(LastNamed(FormFields, name))
    ELSE IF NamedAt(request.query, name) # {} THEN Str(LastNamed(request.query, name))
    ELSE Undefined

IntegerValue(t) ==
    IF Head(t) = "-" THEN -DigitsValue(Tail(t), 0)
    ELSE IF Head(t) = "+" THEN DigitsValue(Tail(t), 0)
    ELSE DigitsValue(t, 0)

\* C9: on /redirect-to with a form content type, a parameter written in the
\* query and in the form (names compared without case) takes the form's
\* value; a parameter only in the query is still used; url and status_code
\* are looked up without regard to case.
C9_FormOverridesQuery ==
    RedirectToDone =>
        /\ IF Truthy(Supplied(UrlKey))
           THEN response.location = Supplied(UrlKey)
           ELSE response.status = 400 /\ ~response.location.def
        /\ (/\ Truthy(Supplied(UrlKey))
            /\ Supplied(StatusCodeKey).def
            /\ IsIntegerText(Supplied(StatusCodeKey).s))
           => LET n == IntegerValue(Supplied(StatusCodeKey).s)
              IN  response.status = IF n >= 300 /\ n < 400 THEN n ELSE 302

\* url=/a and status_code=301 in the query, URL=/c and status_code=303 in a
\* url-encoded form: the redirect goes to /c with 303
C9_Witness ==
    /\ RedirectToDone
    /\ request.contentType = <<FormUrlEncoded>>
    /\ request.query = <<<<UrlKey, TextValue(<<"/", "a">>)>>,
                         <<StatusCodeKey, TextValue(toString(301))>>>>
    /\ request.form.entries = <<<<(<<"U", "R", "L">>), TextValue(<<"/", "c">>)>>,
                                <<StatusCodeKey, TextValue(toString(303))>>>>
    /\ response.location = Str(<<"/", "c">>)
    /\ response.status = 303

\* C10: /redirect-to answers 400 when no url is supplied; otherwise Location
\* is the supplied url and the status is status_code when status_code is an
\* integer in [300, 400), and 302 in every other case.
C10_IntegerStatusCode ==
    RedirectToDone =>
        IF ~Truthy(Supplied(UrlKey))
        THEN response.status = 400 /\ ~response.location.def
        ELSE /\ response.location = Supplied(UrlKey)
             /\ response.status =
                  IF /\ Supplied(StatusCodeKey).def
                     /\ IsIntegerText(Supplied(StatusCodeKey).s)
                     /\ IntegerValue(Supplied(StatusCodeKey).s) >= 300
                     /\ IntegerValue(Supplied(StatusCodeKey).s) < 400
                  THEN IntegerValue(Supplied(StatusCodeKey).s)
                  ELSE 302


(***************************************************************************)
(* Echo endpoints: GET /get with getQueryParams, getHeaders, getOrigin.    *)
(***************************************************************************)
\* the characters of a name or a value written as one word
Chars(word) ==
    CASE word = "cf-connecting-ip" -> <<"c","f","-","c","o","n","n","e","c","t","i","n","g","-","i","p">>
      [] word = "true-client-ip" -> <<"t","r","u","e","-","c","l","i","e","n","t","-","i","p">>
      [] word = "x-forwarded-for" -> <<"x","-","f","o","r","w","a","r","d","e","d","-","f","o","r">>
      [] word = "x-real-ip" -> <<"x","-","r","e","a","l","-","i","p">>
      [] word = "accept" -> <<"a","c","c","e","p","t">>
      [] word = "via" -> <<"v","i","a">>
      [] word = "show_env" -> <<"s","h","o","w","_","e","n","v">>
      [] word = "unknown" -> <<"u","n","k","n","o","w","n">>
      [] word = "if-modified-since" -> <<"i","f","-","m","o","d","i","f","i","e","d","-","s","i","n","c","e">>
      [] word = "if-none-match" -> <<"i","f","-","n","o","n","e","-","m","a","t","c","h">>

\* c.req.header(name): the value of a request header, undefined when absent
Header(req, name) == IF name \in DOMAIN req.headers THEN req.headers[name] ELSE Undefined

\* forwardedFor.split(",")[0]?.trim() || "unknown"
FirstForwarded(forwardedFor) ==
    LET first == Trim(split(forwardedFor, ",")[1])
    IN  IF first # <<>> THEN first ELSE Chars("unknown")

\* an origin where x-real-ip is looked at before x-forwarded-for
getOrigin_RealIpFirst(req) ==
    IF Truthy(Header(req, Chars("cf-connecting-ip"))) THEN Header(req, Chars("cf-connecting-ip")).s
    ELSE IF Truthy(Header(req, Chars("true-client-ip"))) THEN Header(req, Chars("true-client-ip")).s
    ELSE IF Truthy(Header(req, Chars("x-real-ip"))) THEN Header(req, Chars("x-real-ip")).s
    ELSE IF Truthy(Header(req, Chars("x-forwarded-for")))
    THEN FirstForwarded(Header(req, Chars("x-forwarded-for")).s)
    ELSE Chars("unknown")

\* getOrigin(c)
getOrigin(req) ==
    LET cfConnectingIp == Header(req, Chars("cf-connecting-ip"))
        trueClientIp   == Header(req, Chars("true-client-ip"))
        forwardedFor   == Header(req, Chars("x-forwarded-for"))
        realIp         == Header(req, Chars("x-real-ip"))
    IN  IF Truthy(cfConnectingIp) THEN cfConnectingIp.s
        ELSE IF Truthy(trueClientIp) THEN trueClientIp.s
        ELSE IF Truthy(forwardedFor) THEN FirstForwarded(forwardedFor.s)
        ELSE IF Truthy(realIp) THEN realIp.s
        ELSE Chars("unknown")

\* the environment headers hidden by default
ENV_HEADERS ==
    <<<<"X", "-", "V", "a", "r", "n", "i", "s", "h">>,
      <<"X", "-", "R", "e", "q", "u", "e", "s", "t", "-", "S", "t", "a", "r", "t">>,
      <<"X", "-", "H", "e", "r", "o", "k", "u", "-", "Q", "u", "e", "u", "e", "-", "D", "e", "p", "t", "h">>,
      <<"X", "-", "R", "e", "a", "l", "-", "I", "p">>,
      <<"X", "-", "F", "o", "r", "w", "a", "r", "d", "e", "d", "-", "P", "r", "o", "t", "o">>,
      <<"X", "-", "F", "o", "r", "w", "a", "r", "d", "e", "d", "-", "P", "r", "o", "t", "o", "c", "o", "l">>,
      <<"X", "-", "F", "o", "r", "w", "a", "r", "d", "e", "d", "-", "S", "s", "l">>,
      <<"X", "-", "H", "e", "r", "o", "k", "u", "-", "Q", "u", "e", "u", "e", "-", "W", "a", "i", "t", "-", "T", "i", "m", "e">>,
      <<"X", "-", "F", "o", "r", "w", "a", "r", "d", "e", "d", "-", "F", "o", "r">>,
      <<"X", "-", "H", "e", "r", "o", "k", "u", "-", "D", "y", "n", "o", "s", "-", "I", "n", "-", "U", "s", "e">>,
      <<"X", "-", "F", "o", "r", "w", "a", "r", "d", "e", "d", "-", "P", "o", "r", "t">>,
      <<"X", "-", "R", "e", "q", "u", "e", "s", "t", "-", "I", "d">>,
      <<"V", "i", "a">>,
      <<"T", "o", "t", "a", "l", "-", "R", "o", "u", "t", "e", "-", "T", "i", "m", "e">>,
      <<"C", "o", "n", "n", "e", "c", "t", "-", "T", "i", "m", "e">>,
      <<"C", "F", "-", "C", "o", "n", "n", "e", "c", "t", "i", "n", "g", "-", "I", "P">>,
      <<"C", "F", "-", "I", "P", "C", "o", "u", "n", "t", "r", "y">>,
      <<"C", "F", "-", "R", "a", "y">>,
      <<"C", "F", "-", "R", "e", "q", "u", "e", "s", "t", "-", "I", "D">>,
      <<"C", "F", "-", "V", "i", "s", "i", "t", "o", "r">>,
      <<"C", "F", "-", "E", "W", "-", "V", "i", "a">>,
      <<"T", "r", "u", "e", "-", "C", "l", "i", "e", "n", "t", "-", "I", "P">>,
      <<"C", "F", "-", "W", "o", "r", "k", "e", "r">>>>

\* c.req.query(key): the first value written for the key, undefined when the
\* key is not in the query string
QueryValue(query, key) ==
    IF \E i \in 1..Len(query) : query[i][1] = key
    THEN Str(query[CHOOSE i \in 1..Len(query) :
                     /\ query[i][1] = key
                     /\ \A j \in 1..(i - 1) : query[j][1] # key][2])
    ELSE Undefined

\* envHeader.toLowerCase() for each envHeader of ENV_HEADERS
LowerEnvHeaders == {toLowerCase(ENV_HEADERS[i]) : i \in 1..Len(ENV_HEADERS)}

\* delete headers[envHeader.toLowerCase()] for each envHeader of ENV_HEADERS
WithoutEnvHeaders(headers) ==
    [name \in (DOMAIN headers) \ LowerEnvHeaders |-> headers[name]]

\* getHeaders(c, hideEnv): c.req.header() is the record of all request headers
\* under their lower-cased names
getHeaders(req, hideEnv) ==
    IF hideEnv /\ ~Truthy(QueryValue(req.query, Chars("show_env")))
    THEN WithoutEnvHeaders(req.headers)
    ELSE req.headers


\* a value of a MultiValueMap: one string, or the list of the values
Scalar(v) == [multi |-> FALSE, s |-> v, list |-> <<>>]

List(vs) == [multi |-> TRUE, s |-> <<>>, list |-> vs]

\* the keys of key/value pairs in the order they first occur
RECURSIVE KeysInOrder(_, _)
KeysInOrder(pairs, seen) ==
    IF pairs = <<>> THEN <<>>
    ELSE IF Head(pairs)[1] \in seen THEN KeysInOrder(Tail(pairs), seen)
    ELSE <<Head(pairs)[1]>> \o KeysInOrder(Tail(pairs), seen \cup {Head(pairs)[1]})

\* the values written for a key, in order
RECURSIVE ValuesOf(_, _)
ValuesOf(pairs, key) ==
    IF pairs = <<>> THEN <<>>
    ELSE (IF Head(pairs)[1] = key THEN <<Head(pairs)[2]>> ELSE <<>>)
             \o ValuesOf(Tail(pairs), key)

\* c.req.queries(): every key with the array of all its values
queries(query) ==
    LET keys == KeysInOrder(query, {})
    IN  [i \in 1..Len(keys) |-> <<keys[i], List(ValuesOf(query, keys[i]))>>]

\* semiflatten(multi): an array of one value becomes the value
semiflatten(multi) ==
    [i \in 1..Len(multi) |->
        LET value == multi[i][2]
        IN  <<multi[i][1],
              IF value.multi
              THEN (IF Len(value.list) = 1 THEN Scalar(value.list[1]) ELSE value)
              ELSE value>>]

getQueryParams(req) == semiflatten(queries(req.query))

EchoRequest(headers, query) == [headers |-> headers, query |-> query]

EchoResponse(args, headers, origin) == [args |-> args, headers |-> headers, origin |-> origin]

\* GET /get
GetHandler(req) == EchoResponse(getQueryParams(req), getHeaders(req, TRUE), getOrigin(req))

\* a header as the client writes it, or "~" for a header the client leaves out
Absent == <<"~">>

AddressValues == {Absent, <<>>, <<"c">>}

ForwardedValues ==
    {Absent, <<>>, <<" ">>, <<"f">>, <<" ", "f", " ", ",", "g">>, <<",", "g">>,
     <<" ", ",", " ", "g">>, <<"f", ",", "g">>}

\* the headers of a request: each written value without its outer white space
EchoHeaders(cf, tci, xff, xri, accept) ==
    LET written == [name \in {Chars("cf-connecting-ip"), Chars("true-client-ip"),
                              Chars("x-forwarded-for"), Chars("x-real-ip"), Chars("accept")} |->
                       CASE name = Chars("cf-connecting-ip") -> cf
                         [] name = Chars("true-client-ip") -> tci
                         [] name = Chars("x-forwarded-for") -> xff
                         [] name = Chars("x-real-ip") -> xri
                         [] name = Chars("accept") -> accept]
    IN  [name \in {n \in DOMAIN written : written[n] # Absent} |->
            HeaderValue(Str(written[name]))]

QueryKeys == {Chars("show_env"), <<"a">>}

QueryValues == {<<>>, <<"1">>}

\* the query strings of at most MaxQueryLen key=value pairs
EchoQueries == UNION {[1..k -> QueryKeys \X QueryValues] : k \in 0..MaxQueryLen}

InitEcho ==
    /\ pc = "idle"
    /\ request = EchoRequest(<<>>, <<>>)
    /\ response = EchoResponse(<<>>, <<>>, <<>>)
    /\ history = <<>>

\* one request to /get and its response
HandleGet ==
    /\ pc = "idle"
    /\ \E cf \in AddressValues, tci \in AddressValues, xff \in ForwardedValues,
          xri \in {Absent, <<>>, <<"r">>}, accept \in {Absent, <<"x">>},
          q \in EchoQueries :
         LET req == EchoRequest(EchoHeaders(cf, tci, xff, xri, accept), q)
         IN  /\ request' = req
             /\ response' = GetHandler(req)
    /\ pc' = "done"
    /\ UNCHANGED history

NextEcho == HandleGet

SpecEcho == InitEcho /\ [][NextEcho]_vars

EchoDone == pc = "done"

\* the request carries the header with a value that is not empty
Carries(name) == Truthy(Header(request, Chars(name)))

\* the first comma-separated entry of x-forwarded-for, trimmed
FirstEntry == Trim(split(Header(request, Chars("x-forwarded-for")).s, ",")[1])

\* C12: the origin is resolved by strict priority: cf-connecting-ip if not
\* empty, else true-client-ip, else the trimmed first entry of x-forwarded-for
\* ("unknown" if that entry is empty, without falling through to x-real-ip),
\* else x-real-ip, else "unknown".
C12_OriginPriority ==
    EchoDone =>
        /\ Carries("cf-connecting-ip")
             => response.origin = Header(request, Chars("cf-connecting-ip")).s
        /\ ~Carries("cf-connecting-ip") /\ Carries("true-client-ip")
             => response.origin = Header(request, Chars("true-client-ip")).s
        /\ ~Carries("cf-connecting-ip") /\ ~Carries("true-client-ip")
                /\ Carries("x-forwarded-for")
             => response.origin = IF FirstEntry # <<>> THEN FirstEntry ELSE Chars("unknown")
        /\ ~Carries("cf-connecting-ip") /\ ~Carries("true-client-ip")
                /\ ~Carries("x-forwarded-for") /\ Carries("x-real-ip")
             => response.origin = Header(request, Chars("x-real-ip")).s
        /\ ~Carries("cf-connecting-ip") /\ ~Carries("true-client-ip")
                /\ ~Carries("x-forwarded-for") /\ ~Carries("x-real-ip")
             => response.origin = Chars("unknown")

\* x-forwarded-for ",g" with x-real-ip r and no higher header: "unknown"
C12_Witness ==
    /\ EchoDone
    /\ ~Carries("cf-connecting-ip") /\ ~Carries("true-client-ip")
    /\ Header(request, Chars("x-forwarded-for")) = Str(<<",", "g">>)
    /\ Header(request, Chars("x-real-ip")) = Str(<<"r">>)
    /\ response.origin = Chars("unknown")

\* the query string has a show_env parameter
HasShowEnv == \E i \in 1..Len(request.query) : request.query[i][1] = Chars("show_env")

\* the block-listed headers a request of the model can carry
EnvHeaderNames ==
    {Chars("cf-connecting-ip"), Chars("true-client-ip"), Chars("x-forwarded-for"),
     Chars("x-real-ip")}

\* C13: without a show_env query parameter the headers object holds no
\* header of the environment block-list; with a show_env parameter, whatever
\* its value (an empty value included), it holds every request header.
C13_ShowEnv ==
    EchoDone =>
        IF HasShowEnv
        THEN response.headers = request.headers
        ELSE /\ DOMAIN response.headers = (DOMAIN request.headers) \ EnvHeaderNames
             /\ \A name \in DOMAIN response.headers :
                    response.headers[name] = request.headers[name]


(***************************************************************************)
(* JSON-safe rendering of bytes: TextDecoder and jsonSafe.                 *)
(***************************************************************************)
\* the first and the last value a second byte may have after the lead byte b1
LowerBoundary(b1) == IF b1 = 224 THEN 160 ELSE IF b1 = 240 THEN 144 ELSE 128

UpperBoundary(b1) == IF b1 = 237 THEN 159 ELSE IF b1 = 244 THEN 143 ELSE 191

\* the number of continuation bytes a lead byte needs, -1 for a byte that
\* cannot start a character
BytesNeeded(b1) ==
    IF b1 <= 127 THEN 0
    ELSE IF b1 \in 194..223 THEN 1
    ELSE IF b1 \in 224..239 THEN 2
    ELSE IF b1 \in 240..244 THEN 3
    ELSE -1

\* the continuation bytes that follow the lead byte and fit, at most needed
RECURSIVE BytesSeen(_, _, _)
BytesSeen(bytes, k, needed) ==
    IF k > needed \/ k + 1 > Len(bytes) THEN k - 1
    ELSE LET lo == IF k = 1 THEN LowerBoundary(bytes[1]) ELSE 128
             hi == IF k = 1 THEN UpperBoundary(bytes[1]) ELSE 191
         IN  IF bytes[k + 1] \in lo..hi THEN BytesSeen(bytes, k + 1, needed) ELSE k - 1

\* the code point of a complete character of 1 + needed bytes
RECURSIVE CodePoint(_, _, _)
CodePoint(bytes, k, acc) ==
    IF k > Len(bytes) THEN acc ELSE CodePoint(bytes, k + 1, acc * 64 + (bytes[k] - 128))

\* the UTF-8 decoder: the code points of the bytes, 65533 (U+FFFD) for every
\* ill-formed run, and whether there was one
RECURSIVE Utf8Decode(_)
Utf8Decode(bytes) ==
    IF bytes = <<>> THEN [points |-> <<>>, malformed |-> FALSE]
    ELSE LET needed == BytesNeeded(bytes[1])
             seen   == IF needed <= 0 THEN 0 ELSE BytesSeen(bytes, 1, needed)
             whole  == needed >= 0 /\ seen = needed
             lead   == IF needed = 0 THEN bytes[1]
                       ELSE IF needed = 1 THEN bytes[1] - 192
                       ELSE IF needed = 2 THEN bytes[1] - 224
                       ELSE bytes[1] - 240
             point  == IF whole THEN CodePoint(SubSeq(bytes, 1, 1 + seen), 2, lead) ELSE 65533
             rest   == Utf8Decode(SubSeq(bytes, 2 + seen, Len(bytes)))
         IN  [points |-> <<point>> \o rest.points, malformed |-> ~whole \/ rest.malformed]

\* new TextDecoder("utf-8", { fatal, ignoreBOM: false }).decode(bytes): ok is
\* FALSE where decode throws; a leading U+FEFF is not part of the text
TextDecoder(bytes, fatal) ==
    LET decoded == Utf8Decode(bytes)
        points  == IF decoded.points # <<>> /\ decoded.points[1] = 65279
                   THEN Tail(decoded.points) ELSE decoded.points
    IN  IF fatal /\ decoded.malformed THEN [ok |-> FALSE, s |-> <<>>]
        ELSE [ok |-> TRUE, s |-> [i \in 1..Len(points) |-> fromCharCode(points[i])]]

\* the loop over chunks: binaryString += String.fromCharCode(...chunk)
RECURSIVE BinaryString(_, _)
BinaryString(uint8Array, i) ==
    IF i >= Len(uint8Array) THEN <<>>
    ELSE LET chunk == SubSeq(uint8Array, i + 1,
                             IF i + chunkSize < Len(uint8Array)
                             THEN i + chunkSize ELSE Len(uint8Array))
         IN  [k \in 1..Len(chunk) |-> fromCharCode(chunk[k])]
                 \o BinaryString(uint8Array, i + chunkSize)

DataUri(contentType, base64) ==
    <<"d", "a", "t", "a", ":">> \o contentType
        \o <<";", "b", "a", "s", "e", "6", "4", ",">> \o base64

OctetStream == <<"a", "p", "p", "l", "i", "c", "a", "t", "i", "o", "n", "/", "o", "c", "t", "e", "t", "-", "s", "t", "r", "e", "a", "m">>

\* a string, or bytes (Uint8Array | ArrayBuffer)
StringData(s) == [isString |-> TRUE, s |-> s, bytes |-> <<>>]

BinaryData(bytes) == [isString |-> FALSE, s |-> <<>>, bytes |-> bytes]

\* a rendering that encodes the first chunk only
jsonSafe_FirstChunk(data, contentType) ==
    IF data.isString THEN data.s
    ELSE IF TextDecoder(data.bytes, TRUE).ok THEN TextDecoder(data.bytes, TRUE).s
    ELSE DataUri(contentType,
                 Base64Encode(SubSeq(data.bytes, 1,
                     IF chunkSize < Len(data.bytes) THEN chunkSize ELSE Len(data.bytes))))

\* jsonSafe(data, contentType); JSON.stringify of a string does not throw
jsonSafe(data, contentType) ==
    IF data.isString THEN data.s
    ELSE LET decoded == TextDecoder(data.bytes, TRUE)
         IN  IF decoded.ok THEN decoded.s
             ELSE DataUri(contentType, btoa(BinaryString(data.bytes, 0)))

\* the bytes of the model: a, the lead bytes C3 and EF, the continuation
\* bytes BB and BF, and FF, which no UTF-8 text holds
ByteValues == {97, 195, 239, 187, 191, 255}

ByteStrings == UNION {[1..k -> ByteValues] : k \in 0..MaxBytes}

FileTypes == {OctetStream, <<"a", "/", "b">>}

JsonSafeRequest(bytes, contentType) == [bytes |-> bytes, contentType |-> contentType]

InitJsonSafe ==
    /\ pc = "idle"
    /\ request = JsonSafeRequest(<<>>, OctetStream)
    /\ response = <<>>
    /\ history = <<>>

\* jsonSafe applied to the bytes of an uploaded file and its declared type
ApplyJsonSafe ==
    /\ pc = "idle"
    /\ \E bytes \in ByteStrings, t \in FileTypes :
         /\ request' = JsonSafeRequest(bytes, t)
         /\ response' = jsonSafe(BinaryData(bytes), t)
    /\ pc' = "done"
    /\ UNCHANGED history

NextJsonSafe == ApplyJsonSafe

SpecJsonSafe == InitJsonSafe /\ [][NextJsonSafe]_vars


JsonSafeDone == pc = "done"

\* the codes of the characters a text of the model can hold
TextCodes ==
    (0..255) \cup {65533}
        \cup {CodePoint(<<b1, b2, b3>>, 2, b1 - 224) :
                b1 \in ByteValues \cap (224..239),
                b2 \in ByteValues \cap (128..191), b3 \in ByteValues \cap (128..191)}

CodeOf(ch) == CHOOSE n \in TextCodes : fromCharCode(n) = ch

\* the UTF-8 bytes of a text
RECURSIVE Utf8Encode(_)
Utf8Encode(text) ==
    IF text = <<>> THEN <<>>
    ELSE LET n == CodeOf(Head(text))
         IN  (IF n < 128 THEN <<n>>
              ELSE IF n < 2048 THEN <<192 + (n \div 64), 128 + (n % 64)>>
              ELSE <<224 + (n \div 4096), 128 + ((n \div 64) % 64), 128 + (n % 64)>>)
                 \o Utf8Encode(Tail(text))

\* the bytes after a byte order mark, which a decoder leaves out of the text
WithoutMark(bytes) ==
    IF Len(bytes) >= 3 /\ SubSeq(bytes, 1, 3) = <<239, 187, 191>>
    THEN SubSeq(bytes, 4, Len(bytes)) ELSE bytes

IsUtf8(bytes) == ~Utf8Decode(bytes).malformed

\* the bytes a base64 payload decodes to
PayloadBytes(payload) ==
    LET decoded == atob(payload)
    IN  IF decoded.ok THEN [i \in 1..Len(decoded.s) |-> charCode(decoded.s[i])] ELSE <<-1>>

Throws == [throws |-> TRUE, value |-> <<>>]

Yields(value) == [throws |-> FALSE, value |-> value]

\* await c.req.arrayBuffer(): the body bytes, or a rejection when the
\* transport aborts the read
arrayBuffer(req) == IF req.readFails THEN Throws ELSE Yields(req.body)

\* a reader that lets the rejection of the read reach its caller
getRawDataFromContext_NoCatch(req) ==
    IF arrayBuffer(req).throws THEN Throws
    ELSE Yields(StringData(TextDecoder(arrayBuffer(req).value, FALSE).s))

\* getRawDataFromContext(c): a decoder that is not fatal never throws, so the
\* result is always a string
getRawDataFromContext(req) ==
    LET buffer == arrayBuffer(req)
    IN  IF buffer.throws THEN Yields(StringData(<<>>))
        ELSE LET decoded == TextDecoder(buffer.value, FALSE)
             IN  IF decoded.ok THEN Yields(StringData(decoded.s))
                 ELSE Yields(BinaryData(buffer.value))

\* the first index of ch in s, 0 when s does not hold it
IndexOf(s, ch) ==
    IF \E i \in 1..Len(s) : s[i] = ch
    THEN CHOOSE i \in 1..Len(s) : s[i] = ch /\ \A j \in 1..(i - 1) : s[j] # ch
    ELSE 0

\* the decoding of a name or a value of a url-encoded body: + is a space
\* (the model writes no percent escapes)
UrlDecode(s) == [i \in 1..Len(s) |-> IF s[i] = "+" THEN " " ELSE s[i]]

\* new URLSearchParams(rawData): the name/value pairs in order
URLSearchParams(rawData) ==
    LET pieces == SelectSeq(split(rawData, "&"), LAMBDA piece : piece # <<>>)
    IN  [i \in 1..Len(pieces) |->
            LET eq == IndexOf(pieces[i], "=")
            IN  IF eq = 0 THEN <<UrlDecode(pieces[i]), <<>>>>
                ELSE <<UrlDecode(SubSeq(pieces[i], 1, eq - 1)),
                       UrlDecode(SubSeq(pieces[i], eq + 1, Len(pieces[i])))>>]

\* form[key] of an object kept as a sequence of <<key, value>>
Lookup(form, key) ==
    IF \E i \in 1..Len(form) : form[i][1] = key
    THEN [def |-> TRUE, value |-> form[CHOOSE i \in 1..Len(form) : form[i][1] = key][2]]
    ELSE [def |-> FALSE, value |-> Scalar(<<>>)]

\* form[key] = value: a new key goes to the end
Assign(form, key, value) ==
    IF \E i \in 1..Len(form) : form[i][1] = key
    THEN [i \in 1..Len(form) |-> IF form[i][1] = key THEN <<key, value>> ELSE form[i]]
    ELSE Append(form, <<key, value>>)

\* the callback of params.forEach: if (existing) tests the stored value for
\* truthiness, and an empty string is falsy
RECURSIVE CollectFields(_, _)
CollectFields(form, params) ==
    IF params = <<>> THEN form
    ELSE LET key      == Head(params)[1]
             value    == Head(params)[2]
             existing == Lookup(form, key)
             truthy   == existing.def /\ (existing.value.multi \/ existing.value.s # <<>>)
             updated  == IF truthy
                         THEN IF existing.value.multi
                              THEN Assign(form, key, List(Append(existing.value.list, value)))
                              ELSE Assign(form, key, List(<<existing.value.s, value>>))
                         ELSE Assign(form, key, Scalar(value))
         IN  CollectFields(updated, Tail(params))

\* a form, or null
Null == [null |-> TRUE, value |-> <<>>]

NotNull(value) == [null |-> FALSE, value |-> value]

\* parseFormData(rawData, contentType)
parseFormData(rawData, contentType) ==
    IF includes(contentType, FormUrlEncoded)
    THEN NotNull(semiflatten(CollectFields(<<>>, URLSearchParams(rawData))))
    ELSE Null

\* JSON.parse(text) on the texts of the model, where the JSON texts are the
\* integer literals: ok is FALSE where JSON.parse throws
JsonParse(text) ==
    IF text # <<>> /\ (\A i \in 1..Len(text) : IsDigit(text[i]))
          /\ (Len(text) = 1 \/ text[1] # "0")
    THEN [ok |-> TRUE, value |-> text]
    ELSE [ok |-> FALSE, value |-> <<>>]

BodyData(form, files, data, json, raised, reads) ==
    [form |-> form, files |-> files, data |-> data, json |-> json,
     raised |-> raised, reads |-> reads]

\* { form: null, files: {}, data: "", json: null }
Degraded(reads) == BodyData(Null, <<>>, <<>>, Null, FALSE, reads)

\* an exception that leaves getRequestBodyData
Raised(reads) == BodyData(Null, <<>>, <<>>, Null, TRUE, reads)


\* an uploaded file of a multipart body: its bytes and its declared type
Upload(bytes, type) == [file |-> TRUE, s |-> bytes, type |-> type]

\* the loop over Object.entries(formData): files are rendered by jsonSafe
\* under their declared type and collected per key, other fields go to form
RECURSIVE CollectParts(_, _, _)
CollectParts(form, files, entries) ==
    IF entries = <<>> THEN [form |-> form, files |-> files]
    ELSE LET key   == Head(entries)[1]
             value == Head(entries)[2]
         IN  IF value.file
             THEN LET fileContentType == IF value.type # <<>> THEN value.type ELSE OctetStream
                      jsonSafeValue   == jsonSafe(BinaryData(value.s), fileContentType)
                  IN  CollectParts(form, CollectFields(files, <<<<key, jsonSafeValue>>>>),
                                   Tail(entries))
             ELSE CollectParts(Assign(form, key, Scalar(value.s)), files, Tail(entries))

\* JSON.parse of the strictly decoded bytes, null when either throws
JsonOfBytes(rawData) ==
    LET text == TextDecoder(rawData, TRUE)
    IN  IF text.ok /\ JsonParse(text.s).ok THEN NotNull(JsonParse(text.s).value) ELSE Null

\* the result of the multipart branch: form and files from the parts, data
\* and json from the bytes of the second read
MultipartResult(parts, rawData) ==
    BodyData(NotNull(semiflatten(parts.form)), parts.files,
             jsonSafe(BinaryData(rawData), OctetStream), JsonOfBytes(rawData),
             FALSE, <<"parseBody", "arrayBuffer">>)

\* the raw branch on what getRawDataFromContext gave: data, form and json
\* from the one value read
RawBodyData(read, contentType) ==
    IF read.throws THEN Raised(<<"arrayBuffer">>)
    ELSE BodyData(IF read.value.isString
                  THEN parseFormData(read.value.s, contentType) ELSE Null,
                  <<>>,
                  jsonSafe(read.value, OctetStream),
                  IF read.value.isString /\ JsonParse(read.value.s).ok
                  THEN NotNull(JsonParse(read.value.s).value) ELSE Null,
                  FALSE, <<"arrayBuffer">>)

\* the multipart branch: c.req.parseBody(), then c.req.arrayBuffer(), both
\* inside one try whose catch returns the degraded result
MultipartBodyData(req) ==
    IF req.form.throws THEN Degraded(<<"parseBody">>)
    ELSE IF req.secondRead.throws THEN Degraded(<<"parseBody", "arrayBuffer">>)
    ELSE MultipartResult(CollectParts(<<>>, <<>>, req.form.entries), req.secondRead.value)

\* a normalizer whose reader lets a failed read through
getRequestBodyData_NoCatch(req) ==
    IF includes(req.contentType, MultipartFormData) THEN MultipartBodyData(req)
    ELSE RawBodyData(getRawDataFromContext_NoCatch(req), req.contentType)

\* getRequestBodyData(c)
getRequestBodyData(req) ==
    IF includes(req.contentType, MultipartFormData) THEN MultipartBodyData(req)
    ELSE RawBodyData(getRawDataFromContext(req), req.contentType)

PostRequest(query, contentType, body, fields, readFails, form, secondRead) ==
    [headers |-> <<>>, query |-> query, contentType |-> contentType, body |-> body,
     fields |-> fields, readFails |-> readFails, form |-> form, secondRead |-> secondRead]

\* POST /post: args, the body data, origin and headers
PostHandler(req) ==
    [args |-> getQueryParams(req), body |-> getRequestBodyData(req),
     origin |-> getOrigin(req), headers |-> getHeaders(req, TRUE)]

\* the bytes of name=value pairs joined by &
RECURSIVE FormBytes(_)
FormBytes(pairs) ==
    IF pairs = <<>> THEN <<>>
    ELSE LET text == Head(pairs)[1] \o <<"=">> \o Head(pairs)[2]
                         \o (IF Len(pairs) > 1 THEN <<"&">> ELSE <<>>)
         IN  [i \in 1..Len(text) |-> charCode(text[i])] \o FormBytes(Tail(pairs))

\* the fields a client writes into a url-encoded body
FieldLists ==
    UNION {[1..k -> {<<"a">>, <<"b">>} \X {<<>>, <<"1">>}] : k \in 0..MaxQueryLen}
        \cup {<<<<(<<"a">>), <<"+">>>>>>}

\* the bodies of the model: url-encoded fields, and short byte strings
PostBodies ==
    {[bytes |-> FormBytes(fields), fields |-> fields] : fields \in FieldLists}
        \cup {[bytes |-> b, fields |-> <<>>] : b \in {x \in ByteStrings : Len(x) <= 2}}

NoForm == [throws |-> FALSE, entries |-> <<>>]

\* what c.req.parseBody() makes of a multipart body: it throws, or it yields
\* one value per field name
MultipartForms ==
    LET a == {<<>>} \cup {<<<<(<<"a">>), v>>>> :
                 v \in {TextValue(<<>>), TextValue(<<"1">>), Upload(<<97>>, <<>>),
                        Upload(<<255>>, <<"a", "/", "b">>), Upload(<<>>, <<>>)}}
        b == {<<>>} \cup {<<<<(<<"b">>), v>>>> : v \in {TextValue(<<"1">>), Upload(<<255>>, <<>>)}}
    IN  {[throws |-> FALSE, entries |-> x \o y] : x \in a, y \in b}
            \cup {[throws |-> TRUE, entries |-> <<>>]}

\* what c.req.arrayBuffer() gives after parseBody() has consumed the body: a
\* rejection, or the bytes the framework makes up from what it kept
SecondReads == {Throws} \cup {Yields(b) : b \in {<<>>, <<49>>, <<97>>, <<255>>}}

InitBody ==
    /\ pc = "idle"
    /\ request = PostRequest(<<>>, <<>>, <<>>, <<>>, FALSE, NoForm, Throws)
    /\ response = [args |-> <<>>, body |-> Degraded(<<>>), origin |-> <<>>, headers |-> <<>>]
    /\ history = <<>>

\* a query string with an empty body, or a body with an empty query string
PostInputs ==
    {<<q, [bytes |-> <<>>, fields |-> <<>>]>> : q \in EchoQueries}
        \cup {<<(<<>>), b>> : b \in PostBodies}

\* one request to /post whose content type is not multipart, and its response
HandlePostRaw ==
    /\ pc = "idle"
    /\ \E in \in PostInputs, fails \in BOOLEAN,
          ct \in {<<>>, <<FormUrlEncoded>>, <<"application/json">>} :
         /\ request' = PostRequest(in[1], ct, in[2].bytes, in[2].fields, fails, NoForm, Throws)
         /\ response' = PostHandler(request')
         /\ history' = response'.body.reads
    /\ pc' = "done"

\* one multipart request to /post and its response
HandlePostMultipart ==
    /\ pc = "idle"
    /\ \E f \in MultipartForms, second \in SecondReads :
         /\ request' = PostRequest(<<>>, <<MultipartFormData, "boundary=x">>, <<>>, <<>>,
                                   FALSE, f, second)
         /\ response' = PostHandler(request')
         /\ history' = response'.body.reads
    /\ pc' = "done"

NextBody ==
    \/ HandlePostRaw
    \/ HandlePostMultipart

SpecBody == InitBody /\ [][NextBody]_vars

BodyDone == pc = "done"


\* the values written for a key, in order of occurrence, as the map should
\* hold them: one value as a string, several as the list of all of them
Collapsed(pairs, key) ==
    LET written == SelectSeq(pairs, LAMBDA pair : pair[1] = key)
        values  == [i \in 1..Len(written) |-> written[i][2]]
    IN  IF Len(values) = 1 THEN Scalar(values[1]) ELSE List(values)

\* the fields of the body with their values as the client means them
MeantFields ==
    [i \in 1..Len(request.fields) |->
        <<request.fields[i][1],
          IF request.fields[i][2] = <<"+">> THEN <<" ">> ELSE request.fields[i][2]>>]

UrlEncodedRead ==
    /\ BodyDone
    /\ request.contentType = <<FormUrlEncoded>>
    /\ ~request.readFails

\* C14: for query parameters and for url-encoded form fields, a key written
\* once maps to a single string and a key written two or more times maps to
\* the list of all its values in order, with no value dropped, empty-string
\* values included.
C14_MultiValueMap ==
    /\ BodyDone =>
         \A i \in 1..Len(request.query) :
             Lookup(response.args, request.query[i][1])
                 = [def |-> TRUE, value |-> Collapsed(request.query, request.query[i][1])]
    /\ UrlEncodedRead =>
         /\ ~response.body.form.null
         /\ \A i \in 1..Len(MeantFields) :
                Lookup(response.body.form.value, MeantFields[i][1])
                    = [def |-> TRUE, value |-> Collapsed(MeantFields, MeantFields[i][1])]

RawBranchRead ==
    /\ BodyDone
    /\ request.contentType \in {<<>>, <<"application/json">>}
    /\ ~request.readFails

\* C15: with a content type that is neither multipart nor url-encoded, or
\* none, data is the JSON-safe rendering of the raw body bytes: the decoded
\* text when the bytes are valid UTF-8, and otherwise the data URI
\* data:application/octet-stream;base64,<base64 of the bytes>.
C15_RawDataIsJsonSafe ==
    RawBranchRead =>
        IF IsUtf8(request.body)
        THEN Utf8Encode(response.body.data) = WithoutMark(request.body)
        ELSE response.body.data = DataUri(OctetStream, Base64Encode(request.body))

IsMultipart == request.contentType = <<MultipartFormData, "boundary=x">>

\* the body bytes are the text of an integer, the JSON texts of the model
BodyIsJson ==
    /\ request.body # <<>>
    /\ \A i \in 1..Len(request.body) : request.body[i] \in 48..57

\* C17: getRequestBodyData never raises: a multipart body that fails to
\* parse yields exactly {form: null, files: {}, data: "", json: null}, a body
\* that is not valid JSON yields json: null, and a read that is aborted or
\* fails yields empty data, null json and no files.
C17_NeverRaises ==
    BodyDone =>
        /\ ~response.body.raised
        /\ IsMultipart /\ request.form.throws
             => /\ response.body.form = Null /\ response.body.files = <<>>
                /\ response.body.data = <<>> /\ response.body.json = Null
        /\ ~IsMultipart /\ ~BodyIsJson => response.body.json = Null
        /\ ~IsMultipart /\ request.readFails
             => /\ response.body.data = <<>> /\ response.body.json = Null
                /\ response.body.files = <<>>
        /\ IsMultipart /\ ~request.form.throws /\ request.secondRead.throws
             => /\ response.body.data = <<>> /\ response.body.json = Null
                /\ response.body.files = <<>>

\* a url-encoded body whose read is aborted: empty data, null json, no files
C17_Witness ==
    /\ BodyDone
    /\ request.contentType = <<FormUrlEncoded>>
    /\ request.readFails
    /\ request.body # <<>>
    /\ response.body.data = <<>>
    /\ response.body.json = Null
    /\ ~response.body.raised

\* C18: while one request is handled the body is read exactly once on every
\* content-type branch: no path issues a second read after a first read has
\* consumed the body.
C18_SingleRead ==
    BodyDone => Len(history) = 1


\* ---------------------------------------------------------------------
\* GET /cache
\* ---------------------------------------------------------------------

HexDigits == <<"0", "1", "2", "3", "4", "5", "6", "7", "8", "9", "a", "b", "c", "d", "e", "f">>

\* b.toString(16).padStart(2, "0")
HexByte(b) == <<HexDigits[(b \div 16) + 1], HexDigits[(b % 16) + 1]>>

\* generateETag(): the hex digits of the random bytes, joined
RECURSIVE generateETag(_)
generateETag(randomValues) ==
    IF randomValues = <<>> THEN <<>>
    ELSE HexByte(Head(randomValues)) \o generateETag(Tail(randomValues))

\* the response headers set on the 200 answer
CacheHeaders(lastModified, etag) == [lastModified |-> Str(lastModified), etag |-> Str(etag)]

NoCacheHeaders == [lastModified |-> Undefined, etag |-> Undefined]

CacheResponse(status, body, headers) == [status |-> status, body |-> body, headers |-> headers]

\* GET /cache, in both definitions of the route: the second passes the same
\* two headers to c.json and takes the tag from crypto.randomUUID()
CacheHandler(req, now, randomValues) ==
    LET ifModifiedSince == Header(req, Chars("if-modified-since"))
        ifNoneMatch     == Header(req, Chars("if-none-match"))
        isConditional   == Truthy(ifModifiedSince) \/ Truthy(ifNoneMatch)
    IN  IF isConditional
        THEN CacheResponse(304, Null, NoCacheHeaders)
        ELSE CacheResponse(200,
                 NotNull(EchoResponse(getQueryParams(req), getHeaders(req, TRUE), getOrigin(req))),
                 CacheHeaders(now, generateETag(randomValues)))

\* the conditional headers and one other header of a request to /cache
CacheRequestHeaders(ims, inm, xri) ==
    LET written == [name \in {Chars("if-modified-since"), Chars("if-none-match"),
                              Chars("x-real-ip")} |->
                       CASE name = Chars("if-modified-since") -> ims
                         [] name = Chars("if-none-match") -> inm
                         [] name = Chars("x-real-ip") -> xri]
    IN  [name \in {n \in DOMAIN written : written[n] # Absent} |->
            HeaderValue(Str(written[name]))]

SinceValues == {Absent, <<>>, <<" ">>, <<"d">>}

NoneMatchValues == {Absent, <<>>, <<"*">>, <<"e">>, <<"\"", "e", "\"">>}

Dates == {<<"d">>, <<"n">>}

RandomBytes == {<<0>>, <<10>>, <<255>>}

CacheQueries == {<<>>, <<<<<<"a">>, <<"1">>>>>>, <<<<Chars("show_env"), <<"1">>>>>>}

InitCache ==
    /\ pc = "idle"
    /\ request = EchoRequest(<<>>, <<>>)
    /\ response = CacheResponse(0, Null, NoCacheHeaders)
    /\ history = <<>>

\* one request to /cache and its response; history keeps the clock and the
\* random bytes the handler drew
HandleCache ==
    /\ pc = "idle"
    /\ \E ims \in SinceValues, inm \in NoneMatchValues, xri \in {Absent, <<"r">>},
          q \in CacheQueries, now \in Dates, randomValues \in RandomBytes :
         LET req == EchoRequest(CacheRequestHeaders(ims, inm, xri), q)
         IN  /\ request' = req
             /\ response' = CacheHandler(req, now, randomValues)
             /\ history' = <<now, randomValues>>
    /\ pc' = "done"

NextCache == HandleCache

SpecCache == InitCache /\ [][NextCache]_vars

CacheDone == pc = "done"

CarriesConditional ==
    \/ Chars("if-modified-since") \in DOMAIN request.headers
    \/ Chars("if-none-match") \in DOMAIN request.headers

\* C19: GET /cache answers 304 with an empty body whenever the request
\* carries If-Modified-Since or If-None-Match, whatever the value; when it
\* carries neither it answers 200 with the echo body and with both a
\* Last-Modified and an ETag response header.
C19_CacheConditional ==
    CacheDone =>
        IF CarriesConditional
        THEN response.status = 304 /\ response.body = Null
        ELSE /\ response.status = 200
             /\ response.body = NotNull(GetHandler(request))
             /\ response.headers.lastModified.def
             /\ response.headers.etag.def


\* ---------------------------------------------------------------------
\* Concurrently handled requests and the shared spec object
\* ---------------------------------------------------------------------

Slots == 1..MaxInFlight

\* the imported spec object, the one value shared by all requests: the two
\* fields the handler assigns
SpecObject(host, schemes) == [host |-> host, schemes |-> schemes]

RequestUrl(protocol, host) == [protocol |-> protocol, host |-> host]

\* the schemes the handler derives from the protocol of the URL
Schemes(url) == IF url.protocol = "https:" THEN <<"https">> ELSE <<"http">>

\* the reply to one request: the serialised spec document or the echo body
Reply(document, echo) == [document |-> document, echo |-> echo]

\* a /spec.json handler that serialises the object as it found it and
\* assigns the fields afterwards
SpecJsonHandler_StaleDocument(spec, url) ==
    [spec |-> SpecObject(url.host, Schemes(url)), document |-> spec]

\* GET /spec.json: assigns host and schemes on the shared object, then
\* c.json(spec) serialises it, with no await in between
SpecJsonHandler(spec, url) ==
    LET written == SpecObject(url.host, Schemes(url))
    IN  [spec |-> written, document |-> written]

InFlight(kind, url, post) == [kind |-> kind, url |-> url, post |-> post]

NoPost == PostRequest(<<>>, <<>>, <<>>, <<>>, FALSE, NoForm, Throws)

NoInFlight == InFlight("none", RequestUrl("http:", <<>>), NoPost)

NoDocument == SpecObject(<<>>, <<>>)

NoReply == Reply(NoDocument, PostHandler(NoPost))

Urls == {RequestUrl(p, h) : p \in {"http:", "https:"}, h \in {<<"a">>, <<"b">>}}

ConcurrentPosts ==
    {PostRequest(q, <<>>, b, <<>>, FALSE, NoForm, Throws) :
        q \in {<<>>, <<<<<<"a">>, <<"1">>>>>>}, b \in {<<>>, <<49>>}}

InitConcurrent ==
    /\ pc = [slot \in Slots |-> "idle"]
    /\ request = [slot \in Slots |-> NoInFlight]
    /\ response = [slot \in Slots |-> NoReply]
    /\ history = NoDocument

\* a request for /spec.json arrives
ReceiveSpecJson(slot) ==
    /\ pc[slot] = "idle"
    /\ \E url \in Urls : request' = [request EXCEPT ![slot] = InFlight("spec", url, NoPost)]
    /\ pc' = [pc EXCEPT ![slot] = "received"]
    /\ UNCHANGED <<response, history>>

\* a request for /post arrives
ReceivePost(slot) ==
    /\ pc[slot] = "idle"
    /\ \E url \in Urls, post \in ConcurrentPosts :
         request' = [request EXCEPT ![slot] = InFlight("post", url, post)]
    /\ pc' = [pc EXCEPT ![slot] = "received"]
    /\ UNCHANGED <<response, history>>

\* the /spec.json handler runs from its first statement to its return
HandleSpecJson(slot) ==
    /\ pc[slot] = "received"
    /\ request[slot].kind = "spec"
    /\ LET res == SpecJsonHandler(history, request[slot].url)
       IN  /\ history' = res.spec
           /\ response' = [response EXCEPT ![slot] = Reply(res.document, NoReply.echo)]
    /\ pc' = [pc EXCEPT ![slot] = "done"]
    /\ UNCHANGED request

\* the /post handler runs up to await getRequestBodyData(c)
StartPost(slot) ==
    /\ pc[slot] = "received"
    /\ request[slot].kind = "post"
    /\ pc' = [pc EXCEPT ![slot] = "awaiting"]
    /\ UNCHANGED <<request, response, history>>

\* the body has been read: the /post handler runs to its return
FinishPost(slot) ==
    /\ pc[slot] = "awaiting"
    /\ response' = [response EXCEPT ![slot] = Reply(NoDocument, PostHandler(request[slot].post))]
    /\ pc' = [pc EXCEPT ![slot] = "done"]
    /\ UNCHANGED <<request, history>>

NextConcurrent ==
    \E slot \in Slots :
        \/ ReceiveSpecJson(slot)
        \/ ReceivePost(slot)
        \/ HandleSpecJson(slot)
        \/ StartPost(slot)
        \/ FinishPost(slot)

SpecConcurrent == InitConcurrent /\ [][NextConcurrent]_vars

\* what a request alone determines as its reply
OwnReply(req) ==
    IF req.kind = "spec"
    THEN Reply(SpecObject(req.url.host,
                          IF req.url.protocol = "https:" THEN <<"https">> ELSE <<"http">>),
               NoReply.echo)
    ELSE Reply(NoDocument, PostHandler(req.post))

\* C20: for any interleaving of concurrently handled requests the response
\* to each request is a function of that request alone; the host and the
\* schemes written into the shared spec object by GET /spec.json are never
\* observed in the response to a different request.
C20_IndependentRequests ==
    \A slot \in Slots : pc[slot] = "done" => response[slot] = OwnReply(request[slot])

\* two /spec.json requests for different hosts and protocols were handled:
\* the shared object holds the host of the first, the reply to the second
\* holds its own
C20_Witness ==
    /\ MaxInFlight >= 2
    /\ pc[1] = "done" /\ request[1].kind = "spec"
    /\ pc[2] = "done" /\ request[2].kind = "spec"
    /\ request[1].url.host # request[2].url.host
    /\ request[1].url.protocol # request[2].url.protocol
    /\ history.host = request[1].url.host
    /\ response[2].document.host = request[2].url.host


\* ---------------------------------------------------------------------
\* /delay/:delay
\* ---------------------------------------------------------------------

\* the body of the 200 answer: args, form, data, files, headers, origin
DelayEchoOf(req, bodyData) ==
    [args |-> getQueryParams(req), form |-> bodyData.form, data |-> bodyData.data,
     files |-> bodyData.files, headers |-> getHeaders(req, TRUE), origin |-> getOrigin(req)]

\* const bodyData = await getRequestBodyData(c), and the body built from it
DelayEcho(req) == DelayEchoOf(req, getRequestBodyData(req))

NoDelayEcho == DelayEcho(NoPost)

\* what the handler decides: the answer, and the time handed to setTimeout,
\* in tenths of a second
DelayResult(status, error, timeout, body) ==
    [status |-> status, error |-> error, timeout |-> timeout, body |-> body]

InvalidDelay ==
    DelayResult(400, "Invalid delay. Must be a non-negative number", 0, NoDelayEcho)

\* Math.min on two numbers
Min(a, b) == IF a < b THEN a ELSE b

\* a handler that waits as long as it is asked to
delayHandler_NoCeiling(req) ==
    IF parseFloat(req.delay).nan \/ parseFloat(req.delay).v < 0 THEN InvalidDelay
    ELSE DelayResult(200, "", parseFloat(req.delay).v, DelayEcho(req.post))

\* delayHandler: limitedDelay = Math.min(delay, 10), 10 seconds being 100
\* tenths
delayHandler(req) ==
    IF parseFloat(req.delay).nan \/ parseFloat(req.delay).v < 0 THEN InvalidDelay
    ELSE DelayResult(200, "", Min(parseFloat(req.delay).v, 100), DelayEcho(req.post))

DelayRequest(delay, post) == [delay |-> delay, post |-> post]

\* the delay path parameters of the model
DelayParams ==
    {<<"0">>, <<"-", "0">>, <<"0", ".", "5">>, <<"3">>, <<"1", "0">>, <<"1", "0", ".", "1">>,
     <<"1", "1">>, <<"1", "5">>, <<"5", "a">>, InfinityText, <<"-">> \o InfinityText,
     <<"-", "1">>, <<"-", "0", ".", "5">>, <<"a">>, <<".">>}

InitDelay ==
    /\ pc = "idle"
    /\ request = DelayRequest(<<"0">>, NoPost)
    /\ response = DelayResult(0, "", 0, NoDelayEcho)
    /\ history = 0

\* a request for /delay/:delay arrives and the handler runs up to its timer:
\* 400 at once for a delay that is negative or not a number, otherwise
\* await new Promise((resolve) => setTimeout(resolve, limitedDelay * 1000));
\* response holds what the handler returns once the timer is due
StartDelay ==
    /\ pc = "idle"
    /\ \E delay \in DelayParams, post \in ConcurrentPosts :
         request' = DelayRequest(delay, post)
    /\ response' = delayHandler(request')
    /\ pc' = IF response'.status = 400 THEN "done" ELSE "waiting"
    /\ UNCHANGED history

\* a tenth of a second passes before the timer is due; history is the time
\* the handler has waited
Tick ==
    /\ pc = "waiting"
    /\ history < response.timeout
    /\ history' = history + 1
    /\ UNCHANGED <<pc, request, response>>

\* the timer is due: the handler reads the body and answers
FinishDelay ==
    /\ pc = "waiting"
    /\ history >= response.timeout
    /\ pc' = "done"
    /\ UNCHANGED <<request, response, history>>

NextDelay ==
    \/ StartDelay
    \/ Tick
    \/ FinishDelay

SpecDelay == InitDelay /\ [][NextDelay]_vars

\* the requested delays as numbers, in tenths of a second; -1 for a text
\* that is negative or no number
RequestedTenths ==
    CASE request.delay = <<"0">> -> 0
      [] request.delay = <<"-", "0">> -> 0
      [] request.delay = <<"0", ".", "5">> -> 5
      [] request.delay = <<"3">> -> 30
      [] request.delay = <<"1", "0">> -> 100
      [] request.delay = <<"1", "0", ".", "1">> -> 101
      [] request.delay = <<"1", "1">> -> 110
      [] request.delay = <<"1", "5">> -> 150
      [] request.delay = <<"5", "a">> -> 50
      [] request.delay = InfinityText -> 100 * Infinity
      [] OTHER -> -1

\* C24: the wait of /delay/:n never exceeds 10 seconds: for a value that
\* parses as a number >= 0, values above 10 and Infinity included, the
\* handler waits min(value, 10) seconds and then returns the echo body; for
\* a value that is negative or not a number it returns 400 without waiting.
C24_DelayCeiling ==
    /\ history <= 100
    /\ pc = "done" =>
         IF RequestedTenths >= 0
         THEN /\ history = (IF RequestedTenths < 100 THEN RequestedTenths ELSE 100)
              /\ response.status = 200
              /\ response.body = DelayEcho(request.post)
         ELSE /\ history = 0
              /\ response.status = 400

\* a request for an infinite delay answered after ten seconds
C24_Witness ==
    /\ pc = "done"
    /\ request.delay = InfinityText
    /\ history = 100
    /\ response.status = 200


\* ---------------------------------------------------------------------
\* /cookies/set and /cookies/delete
\* ---------------------------------------------------------------------

XForwardedProto == <<"x", "-", "f", "o", "r", "w", "a", "r", "d", "e", "d", "-", "p", "r", "o", "t", "o">>

CfVisitor == <<"c", "f", "-", "v", "i", "s", "i", "t", "o", "r">>

Https == <<"h", "t", "t", "p", "s">>

Http == <<"h", "t", "t", "p">>

\* the JSON text {"scheme":"<scheme>"}
VisitorJson(scheme) ==
    <<"{", "\"", "s", "c", "h", "e", "m", "e", "\"", ":", "\"">> \o scheme \o <<"\"", "}">>

\* JSON.parse(cfVisitor).scheme for the texts of the model: the scheme of a
\* visitor object, undefined for {}, and an exception for null (a property
\* of null) and for a text that is not JSON
VisitorScheme(text) ==
    CASE text = VisitorJson(Https) -> Yields(Str(Https))
      [] text = VisitorJson(Http) -> Yields(Str(Http))
      [] text = <<"{", "}">> -> Yields(Undefined)
      [] OTHER -> Throws

\* secureCookie(c)
secureCookie(req) ==
    IF Header(req, XForwardedProto) = Str(Https) THEN TRUE
    ELSE IF /\ Truthy(Header(req, CfVisitor))
            /\ ~VisitorScheme(Header(req, CfVisitor).s).throws
            /\ VisitorScheme(Header(req, CfVisitor).s).value = Str(Https)
         THEN TRUE
         ELSE req.protocol = "https:"

UpperHex == <<"0", "1", "2", "3", "4", "5", "6", "7", "8", "9", "A", "B", "C", "D", "E", "F">>

\* the characters encodeURIComponent leaves as they are
Unreserved ==
    {UpperLetters[i] : i \in 1..Len(UpperLetters)} \cup {LowerLetters[i] : i \in 1..Len(LowerLetters)}
        \cup {Digits[i] : i \in 1..Len(Digits)} \cup {"-", "_", ".", "!", "~", "*", "'", "(", ")"}

\* encodeURIComponent(value), for characters below 128
RECURSIVE encodeURIComponent(_)
encodeURIComponent(value) ==
    IF value = <<>> THEN <<>>
    ELSE (IF Head(value) \in Unreserved THEN <<Head(value)>>
          ELSE <<"%", UpperHex[(charCode(Head(value)) \div 16) + 1],
                 UpperHex[(charCode(Head(value)) % 16) + 1]>>)
             \o encodeURIComponent(Tail(value))

\* setCookie(c, name, value, options) with path "/", httpOnly false and
\* sameSite "Lax": the parts that are joined with "; "
setCookie(name, value, maxAge, secure) ==
    [name |-> name, value |-> encodeURIComponent(value),
     attributes |-> <<"Path=/">>
                      \o (IF maxAge.def THEN <<"Max-Age=" \o maxAge.s>> ELSE <<>>)
                      \o (IF secure THEN <<"Secure">> ELSE <<>>)
                      \o <<"SameSite=Lax">>]

\* Array.isArray(value) ? value[0] : value
FirstValue(value) == IF value.multi THEN value.list[1] ELSE value.s

CookieResponse(cookies) == [status |-> 302, location |-> "/cookies", setCookie |-> cookies]

\* GET /cookies/set
CookiesSetHandler(req) ==
    CookieResponse([i \in 1..Len(getQueryParams(req)) |->
        setCookie(getQueryParams(req)[i][1], FirstValue(getQueryParams(req)[i][2]),
                  Undefined, secureCookie(req))])

\* GET /cookies/delete
CookiesDeleteHandler(req) ==
    CookieResponse([i \in 1..Len(getQueryParams(req)) |->
        setCookie(getQueryParams(req)[i][1], <<>>, Str("0"), secureCookie(req))])

CookieRequest(route, protocol, headers, query) ==
    [route |-> route, protocol |-> protocol, headers |-> headers, query |-> query]

\* the x-forwarded-proto headers of the model
ProtoValues == {Absent, Https, Http, <<>>, <<"H", "T", "T", "P", "S">>}

\* the cf-visitor headers of the model
VisitorValues ==
    {Absent, VisitorJson(Https), VisitorJson(Http), <<"{", "}">>, <<"n", "u", "l", "l">>, Https, <<>>}

CookieHeaders(proto, visitor) ==
    LET written == [name \in {XForwardedProto, CfVisitor} |->
                       IF name = XForwardedProto THEN proto ELSE visitor]
    IN  [name \in {n \in DOMAIN written : written[n] # Absent} |->
            HeaderValue(Str(written[name]))]

CookieQueries == {q \in EchoQueries : \A i \in 1..Len(q) : q[i][1] # Chars("show_env")}
                     \cup {<<<<<<"b">>, <<" ">>>>>>}

InitCookies ==
    /\ pc = "idle"
    /\ request = CookieRequest("/cookies/set", "http:", <<>>, <<>>)
    /\ response = CookieResponse(<<>>)
    /\ history = <<>>

\* one request to /cookies/set and its response
HandleCookiesSet ==
    /\ pc = "idle"
    /\ \E protocol \in {"http:", "https:"}, proto \in ProtoValues,
          visitor \in VisitorValues, query \in CookieQueries :
         request' = CookieRequest("/cookies/set", protocol, CookieHeaders(proto, visitor), query)
    /\ response' = CookiesSetHandler(request')
    /\ pc' = "done"
    /\ UNCHANGED history

\* one request to /cookies/delete and its response
HandleCookiesDelete ==
    /\ pc = "idle"
    /\ \E protocol \in {"http:", "https:"}, proto \in ProtoValues,
          visitor \in VisitorValues, query \in CookieQueries :
         request' = CookieRequest("/cookies/delete", protocol, CookieHeaders(proto, visitor), query)
    /\ response' = CookiesDeleteHandler(request')
    /\ pc' = "done"
    /\ UNCHANGED history

NextCookies ==
    \/ HandleCookiesSet
    \/ HandleCookiesDelete

SpecCookies == InitCookies /\ [][NextCookies]_vars

\* the cookies of the response carry the Secure attribute
CookiesSecure ==
    \A i \in 1..Len(response.setCookie) :
        \E j \in 1..Len(response.setCookie[i].attributes) :
            response.setCookie[i].attributes[j] = "Secure"

\* none of the cookies of the response carries the Secure attribute
CookiesNotSecure ==
    \A i \in 1..Len(response.setCookie) :
        \A j \in 1..Len(response.setCookie[i].attributes) :
            response.setCookie[i].attributes[j] # "Secure"

\* what the first source that is present says: x-forwarded-proto, then
\* cf-visitor, then the scheme of the request URL
FirstSourceSecure ==
    IF Header(request, XForwardedProto).def
    THEN Header(request, XForwardedProto).s = Https
    ELSE IF Header(request, CfVisitor).def
         THEN Header(request, CfVisitor).s = VisitorJson(Https)
         ELSE request.protocol = "https:"

\* C25: the Secure attribute of the cookies set by /cookies/set and
\* /cookies/delete is decided by the first source that is present, in the
\* order x-forwarded-proto, cf-visitor, URL scheme: a present
\* x-forwarded-proto decides alone, and a lower source is consulted only
\* when every higher one is absent.
C25_FirstSourceDecides ==
    pc = "done" =>
        IF FirstSourceSecure THEN CookiesSecure ELSE CookiesNotSecure


\* ---------------------------------------------------------------------
\* GET /response-headers
\* ---------------------------------------------------------------------

maxIterations == 10

\* the characters of a header name (a token)
TokenChars ==
    {UpperLetters[i] : i \in 1..Len(UpperLetters)} \cup {LowerLetters[i] : i \in 1..Len(LowerLetters)}
        \cup {Digits[i] : i \in 1..Len(Digits)}
        \cup {"!", "#", "$", "%", "&", "'", "*", "+", "-", ".", "_", "|", "~"}

\* a name that the Headers of a response accept
IsToken(name) == name # <<>> /\ \A i \in 1..Len(name) : name[i] \in TokenChars

\* the items with a comma between them
RECURSIVE JsonJoin(_)
JsonJoin(items) ==
    IF items = <<>> THEN <<>>
    ELSE IF Len(items) = 1 THEN items[1]
    ELSE items[1] \o <<",">> \o JsonJoin(Tail(items))

\* JSON.stringify of a string | string[] (no character of the model needs
\* an escape)
JsonValue(value) ==
    IF value.multi
    THEN <<"[">> \o JsonJoin([i \in 1..Len(value.list) |-> Quote(value.list[i])]) \o <<"]">>
    ELSE Quote(value.s)

\* JSON.stringify(responseHeaders)
JSONstringify(object) ==
    <<"{">>
        \o JsonJoin([i \in 1..Len(object) |->
                        Quote(object[i][1]) \o <<":">> \o JsonValue(object[i][2])])
        \o <<"}">>

\* headersToSet: the entries of params
headersToSet(req) == getQueryParams(req)

\* buildResponseHeaders()
buildResponseHeaders(toSet) ==
    [i \in 1..Len(toSet) |->
        <<toSet[i][1],
          IF toSet[i][2].multi
          THEN (IF Len(toSet[i][2].list) = 1 THEN Scalar(toSet[i][2].list[1])
                ELSE toSet[i][2])
          ELSE toSet[i][2]>>]

\* Headers: the entries <<name in lower case, values>>; set replaces the
\* values of a name, append adds one
HeadersSet(headers, name, value) == MapSet(headers, toLowerCase(name), <<Trim(value)>>)

HeadersAppend(headers, name, value) ==
    IF MapHas(headers, toLowerCase(name))
    THEN MapSet(headers, toLowerCase(name),
                MapGet(headers, toLowerCase(name)).s \o <<Trim(value)>>)
    ELSE MapSet(headers, toLowerCase(name), <<Trim(value)>>)

RECURSIVE AppendEach(_, _, _)
AppendEach(headers, name, values) ==
    IF values = <<>> THEN headers
    ELSE AppendEach(HeadersAppend(headers, name, Head(values)), name, Tail(values))

\* for (const [key, value] of Object.entries(headersToSet)): append every
\* value of an array, set a single value
RECURSIVE SetEach(_, _)
SetEach(headers, toSet) ==
    IF toSet = <<>> THEN headers
    ELSE SetEach(IF Head(toSet)[2].multi
                 THEN AppendEach(headers, Head(toSet)[1], Head(toSet)[2].list)
                 ELSE HeadersSet(headers, Head(toSet)[1], Head(toSet)[2].s),
                 Tail(toSet))

\* the headers of c.json(...)
JsonHeaders ==
    <<<<(<<"c", "o", "n", "t", "e", "n", "t", "-", "t", "y", "p", "e">>),
        <<(<<"a", "p", "p", "l", "i", "c", "a", "t", "i", "o", "n", "/", "j", "s", "o", "n">>)>>>>>>

HeadersResponse(thrown, branch, status, body, headers) ==
    [thrown |-> thrown, branch |-> branch, status |-> status, body |-> body,
     headers |-> headers]

\* c.json(responseHeaders) and the headers set on it; a name that is no
\* token makes set and append raise a TypeError, which leaves the handler
RespondWith(branch, responseHeaders, toSet) ==
    IF \A i \in 1..Len(toSet) : IsToken(toSet[i][1])
    THEN HeadersResponse(FALSE, branch, 200, responseHeaders, SetEach(JsonHeaders, toSet))
    ELSE HeadersResponse(TRUE, branch, 500, <<>>, <<>>)

\* the second definition: c.json(params, 200, params)
SinglePass(req) == RespondWith("converged", getQueryParams(req), getQueryParams(req))

LoopState(previousData, iterations, responseHeaders) ==
    [previousData |-> previousData, iterations |-> iterations,
     responseHeaders |-> responseHeaders]

HeaderKeys == {<<"a">>, <<"A">>, <<"b">>, <<"a", " ", "b">>}

HeaderQueries == UNION {[1..k -> HeaderKeys \X {<<"1">>, <<"2">>}] : k \in 0..MaxQueryLen}

InitResponseHeaders ==
    /\ pc = "idle"
    /\ request = [query |-> <<>>]
    /\ response = HeadersResponse(FALSE, "", 0, <<>>, <<>>)
    /\ history = LoopState(<<>>, 0, <<>>)

\* a request arrives: the handler runs up to the loop
EnterLoop ==
    /\ pc = "idle"
    /\ \E query \in HeaderQueries : request' = [query |-> query]
    /\ history' = LoopState(<<>>, 0, buildResponseHeaders(headersToSet(request')))
    /\ pc' = "loop"
    /\ UNCHANGED response

\* one test of the loop condition and what follows: the converged return,
\* another iteration, or the fallback after the loop
LoopPass ==
    /\ pc = "loop"
    /\ IF history.iterations < maxIterations
       THEN IF JSONstringify(history.responseHeaders) = history.previousData
            THEN /\ response' = RespondWith("converged", history.responseHeaders,
                                            headersToSet(request))
                 /\ pc' = "done"
                 /\ UNCHANGED history
            ELSE /\ history' = LoopState(JSONstringify(history.responseHeaders),
                                         history.iterations + 1,
                                         buildResponseHeaders(headersToSet(request)))
                 /\ UNCHANGED <<pc, response>>
       ELSE /\ response' = RespondWith("fallback", history.responseHeaders,
                                       headersToSet(request))
            /\ pc' = "done"
            /\ UNCHANGED history
    /\ UNCHANGED request

NextResponseHeaders ==
    \/ EnterLoop
    \/ LoopPass

SpecResponseHeaders == InitResponseHeaders /\ [][NextResponseHeaders]_vars

\* the values the response carries under a name, names compared without case
ValuesUnder(name) ==
    IF MapHas(response.headers, toLowerCase(name))
    THEN MapGet(response.headers, toLowerCase(name)).s
    ELSE <<>>

\* the loop ended in its converged branch, within the limit
ConvergedInTime ==
    /\ response.branch = "converged"
    /\ history.iterations <= maxIterations

\* body and headers are the semi-flattened parameters, a header value for
\* every occurrence of a parameter
ParametersReflected ==
    /\ ~response.thrown
    /\ response.body = getQueryParams(request)
    /\ \A i \in 1..Len(request.query) :
         ValuesUnder(request.query[i][1]) = ValuesOf(request.query, request.query[i][1])

\* C28: the convergence loop of GET /response-headers always ends in its
\* converged branch within 10 iterations (the fallback is never reached) and
\* its result is that of a single pass: the JSON body and the response
\* headers equal the semi-flattened query parameters, one header value per
\* occurrence of a repeated parameter.
C28_LoopIsSinglePass ==
    pc = "done" => ConvergedInTime /\ response = SinglePass(request) /\ ParametersReflected

\* the loop part alone: the fallback is never reached and the result is that
\* of a single pass
LoopConverges ==
    pc = "done" =>
        ConvergedInTime /\ history.iterations = 1 /\ response = SinglePass(request)

\* no parameter name is refused as a header name and no two names differ
\* only in case
PlainNames ==
    \A i \in 1..Len(request.query) :
        /\ IsToken(request.query[i][1])
        /\ \A j \in 1..Len(request.query) :
             toLowerCase(request.query[i][1]) = toLowerCase(request.query[j][1])
                 => request.query[i][1] = request.query[j][1]

\* with plain names the parameters are reflected
PlainNamesReflected == (pc = "done" /\ PlainNames) => ParametersReflected

\* a repeated parameter was reflected with both of its values
RepeatedReflected ==
    /\ pc = "done"
    /\ request.query = <<<<<<"a">>, <<"1">>>>, <<<<"a">>, <<"2">>>>>>
    /\ ValuesUnder(<<"a">>) = <<<<"1">>, <<"2">>>>

====
